---------------------------- MODULE Spec2Model ----------------------------
(***************************************************************************)
(* A model of xbnet: the XBee API-frame codec (xbpacket.rs, txpacket.rs),  *)
(* the packetizer, the receive parser and reframer (xbrx.rs), and the      *)
(* transmit pipeline fed by the ping, pong, pipe, TAP and TUN drivers.     *)
(*                                                                         *)
(* Bytes are naturals 0..255.  A u64 radio address is kept as its eight    *)
(* big-endian bytes (what put_u64 / get_u64 exchange with the wire), a u16 *)
(* as a natural below 65536.                                               *)
(***************************************************************************)
EXTENDS Naturals, Sequences, FiniteSets, TLC

VARIABLES
    txreq,        \* codec: the XBTXRequest handed to serialize
    txout,        \* codec: the result of the last serialize call
    macs,         \* codec: the addresses handed to mac64to48 and mac48to64, and their results
    framecounter, \* PacketStream.framecounter
    pkin,         \* packetizer: the arguments of the last packetize_data call
    pkout,        \* packetizer: its result
    pkcalls,      \* packetizer: number of calls made so far
    serin,        \* bytes on the serial line, written by the radio, not yet read
    buf,          \* XBReframer.buf: sender_addr64 -> bytes collected so far
    rxret,        \* what the last step of rxframe returned, if it returned
    rxlog,        \* the Receive Packets rxframe has processed, in order
    rfstatus,     \* the thread running rxframe: "running" or "panicked"
    rxcall,       \* what the last call of rxxbpacket logged about the frame it read
    air,          \* per remote sender, the chunks transmitted and still on the air
    handed,       \* per remote sender, the datagrams handed to its packetizer
    nradio,       \* frames the radio has put on the serial line so far
    nsent,        \* datagrams the remote senders have handed over so far
    mode,         \* the subcommand: "ping", "pong", "pipe", "tap", "tun" ("none": not started)
    opts,         \* the command line flags and the radio's max_packet_size
    txq,          \* the bounded transmit queue of XBTX items
    prod,         \* the thread that feeds the queue: state, and the item a blocked send holds
    counter,      \* genpings: counter
    stdin,        \* pipe: the bytes of standard input not read yet
    hostin,       \* tap/tun: frames read from the device so far
    hostframe,    \* tap/tun: the frame last read from the device
    tapdests,     \* XBTap.dests: Ethernet MAC -> radio address
    tundests,     \* XBTun.dests: IP address -> (radio address, expiration)
    now,          \* the clock read by Instant::now()
    wstate,       \* the writer thread: "recv", "writing" or "exited"
    wpending,     \* writer: the TX Requests of the current item not written yet
    wire,         \* the frames written to the serial port, in order
    mainstate,    \* the main thread: "running", "exited" (status 0) or "panicked"
    offered,      \* the items the producer has tried to enqueue, in order
    deq,          \* the items the writer has dequeued, in order
    hostout,      \* tap/tun: the frames written to the device, in order
    sync,         \* tap/tun: who holds the mutex of dests, and where each bridge thread is
    atstate,      \* XB::new: the step it is at, and how it stands
    atout,        \* XB::new: what it has written to the serial port, in order
    atin          \* XB::new: the lines readln has returned, in order

codecVars == <<txreq, txout, macs>>
pkVars == <<framecounter, pkin, pkout, pkcalls>>
rxVars == <<serin, buf, rxret, rxlog, rfstatus, rxcall, nradio>>
linkVars == <<air, handed, nsent>>
atVars == <<atstate, atout, atin>>
txVars == <<mode, opts, txq, prod, counter, stdin, hostin, hostframe, tapdests, tundests, now,
            wstate, wpending, wire, mainstate, offered, deq>>
vars == <<txreq, txout, macs, framecounter, pkin, pkout, pkcalls,
          serin, buf, rxret, rxlog, rfstatus, rxcall, nradio, air, handed, nsent,
          mode, opts, txq, prod, counter, stdin, hostin, hostframe, tapdests, tundests, now,
          wstate, wpending, wire, mainstate, offered, deq,
          hostout, sync, atstate, atout, atin>>

-----------------------------------------------------------------------------
(* Bounds of the model *)

MaxPayloadLen == 3

\* packetizer: longest enumerated datagram, largest max_packet_size, calls per run
MaxDataLen == 3
MaxPacketSize == 3
MaxCalls == 2

\* receive side: frames the radio delivers in a run, longest chunk data of a
\* Receive Packet, largest chunk header value
MaxRadioFrames == 3
MaxHeader == 2

\* radio link: datagrams the remote senders hand over in a run, their longest
\* datagram, and the max_packet_size their packetizers run with
MaxSends == 2
MaxLinkLen == 2
LinkPacketSize == 2

\* packetizer: lengths of the long datagrams (around the 255-chunk limit)
LongLens == {255, 256}

\* payload bytes the inputs are drawn from (a low byte, the frame delimiter, the top byte)
PayloadBytes == {1, 126, 255}

-----------------------------------------------------------------------------
(* Byte helpers *)

U8_MAX == 255
U16_MAX == 65535

\* the sum of s[lo..hi]
RECURSIVE RangeSum(_, _, _)
RangeSum(s, lo, hi) ==
    IF lo > hi THEN 0
    ELSE IF lo = hi THEN s[lo]
    ELSE RangeSum(s, lo, (lo + hi) \div 2) + RangeSum(s, (lo + hi) \div 2 + 1, hi)

SeqSum(s) == RangeSum(s, 1, Len(s))

\* the two bytes in little-endian order
put_u16_le(n) == <<n % 256, n \div 256>>

\* BufMut::put_u16: two bytes, big-endian
put_u16(n) == <<n \div 256, n % 256>>

\* sequences over S of length at most n
SeqsUpTo(S, n) == UNION {[1..k -> S] : k \in 0..n}

\* the address constants used as inputs (u64 as eight big-endian bytes)
XB_BROADCAST == <<0, 0, 0, 0, 0, 0, 255, 255>>
AddrA == <<0, 19, 162, 0, 64, 18, 52, 86>>
AddrB == <<0, 19, 162, 0, 64, 170, 170, 170>>

XBDestAddrs ==
    {[kind |-> "U64", addr |-> a] : a \in {XB_BROADCAST, AddrA, AddrB}}
        \cup {[kind |-> "U16", addr |-> n] : n \in {0, 65534}}

-----------------------------------------------------------------------------
(* xbpacket.rs: xbchecksum, XBTXRequest::serialize *)

\* a checksum that forgets the "as u8" truncation of the sum
xbchecksum_notrunc(data) ==
    IF SeqSum(data) <= 255 THEN 255 - SeqSum(data) ELSE 0

xbchecksum(data) == 255 - (SeqSum(data) % 256)

InvalidLen == [ok |-> FALSE, bytes |-> <<>>]

innerframe(r) ==
    <<16, r.frame_id>>
        \o (IF r.dest_addr.kind = "U16"
            THEN <<255, 255, 255, 255, 255, 255, 255, 255>> \o put_u16(r.dest_addr.addr)
            ELSE r.dest_addr.addr \o put_u16(65534))
        \o <<r.broadcast_radius, r.transmit_options>>
        \o r.payload

\* a serializer without the test for an empty payload
serialize_emptyok(r) ==
    IF Len(innerframe(r)) <= U16_MAX
    THEN [ok |-> TRUE,
          bytes |-> <<126>> \o put_u16(Len(innerframe(r))) \o innerframe(r)
                        \o <<xbchecksum(innerframe(r))>>]
    ELSE InvalidLen

serialize(r) ==
    IF r.payload = <<>> THEN InvalidLen
    ELSE IF Len(innerframe(r)) <= U16_MAX
         THEN [ok |-> TRUE,
               bytes |-> <<126>> \o put_u16(Len(innerframe(r))) \o innerframe(r)
                             \o <<xbchecksum(innerframe(r))>>]
         ELSE InvalidLen

\* txpacket.rs: the same builder, with the length field taken from the payload
serialize_txpacket(r) ==
    IF r.payload = <<>> THEN InvalidLen
    ELSE IF Len(r.payload) <= U16_MAX
         THEN [ok |-> TRUE,
               bytes |-> <<126>> \o put_u16(Len(r.payload)) \o innerframe(r)
                             \o <<xbchecksum(innerframe(r))>>]
         ELSE InvalidLen

-----------------------------------------------------------------------------
(* xbpacket.rs: PacketStream *)

\* PacketStream::new
PacketStreamNew == 1

\* get_and_incr_framecounter: the value after the call (the value returned is fc)
incr_framecounter(fc) == IF fc = U8_MAX THEN 1 ELSE fc + 1

\* a counter that wraps from 255 to 0
framecounter_after_wrap0(fc, k) == (fc + k) % (U8_MAX + 1)

\* get_and_incr_framecounter called k times in a row: the counter afterwards
\* (the counter walks the cycle 1, 2, ..., 255, 1, ...)
framecounter_after(fc, k) == ((fc - 1 + k) % U8_MAX) + 1

CeilDiv(a, b) == (a + b - 1) \div b

Min(a, b) == IF a <= b THEN a ELSE b

\* slice::chunks with a chunk one byte too long
chunks_offbyone(data, n) ==
    [i \in 1..CeilDiv(Len(data), n + 1) |->
        SubSeq(data, (i - 1) * (n + 1) + 1, Min(i * (n + 1), Len(data)))]

\* slice::chunks(n), n > 0: consecutive pieces of n elements, the last possibly shorter
chunks(data, n) ==
    [i \in 1..CeilDiv(Len(data), n) |-> SubSeq(data, (i - 1) * n + 1, Min(i * n, Len(data)))]

\* the header byte written as the count including this chunk
chunk_header_inclusive(chunks_remaining) == chunks_remaining

\* the header byte of a chunk: payload.put_u8(chunks_remaining - 1)
chunk_header(chunks_remaining) == chunks_remaining - 1

\* the for loop emitting the chunks last first
packetize_loop_reversed(cs, fc, dest, disable_xbee_acks, request_xbee_tx_reports) ==
    [i \in 1..Len(cs) |->
        [frame_id |-> IF request_xbee_tx_reports THEN framecounter_after(fc, i - 1) ELSE 0,
         dest_addr |-> dest,
         broadcast_radius |-> 0,
         transmit_options |-> IF disable_xbee_acks THEN 1 ELSE 0,
         payload |-> <<chunk_header(i)>> \o cs[Len(cs) + 1 - i]]]

\* the for loop of packetize_data: iteration i (from 1) runs with chunks_remaining
\* decremented i-1 times and the frame counter advanced i-1 times
packetize_loop(cs, fc, dest, disable_xbee_acks, request_xbee_tx_reports) ==
    [i \in 1..Len(cs) |->
        [frame_id |-> IF request_xbee_tx_reports THEN framecounter_after(fc, i - 1) ELSE 0,
         dest_addr |-> dest,
         broadcast_radius |-> 0,
         transmit_options |-> IF disable_xbee_acks THEN 1 ELSE 0,
         payload |-> <<chunk_header(Len(cs) - (i - 1))>> \o cs[i]]]

\* the values an Err of packetize_data and of serialize can hold: the String of
\* packetize_data, and TXGenError::InvalidLen
MoreThan255Chunks == [type |-> "String", value |-> "More than 255 chunks to transmit"]
TXGenError_InvalidLen == [type |-> "TXGenError", value |-> "InvalidLen"]
NoError == [type |-> "none", value |-> ""]

\* packetize_data without the limit of 255 chunks
packetize_data_nolimit(fc, maxpacketsize, dest, data, disable_xbee_acks, request_xbee_tx_reports) ==
    IF data = <<>> THEN [status |-> "ok", packets |-> <<>>, framecounter |-> fc, error |-> NoError]
    ELSE [status |-> "ok",
          packets |-> packetize_loop(chunks(data, maxpacketsize - 1), fc, dest,
                                     disable_xbee_acks, request_xbee_tx_reports),
          framecounter |-> fc,
          error |-> NoError]

\* packetize_data with the limit one chunk too high
packetize_data_limit256(fc, maxpacketsize, dest, data, disable_xbee_acks, request_xbee_tx_reports) ==
    IF data = <<>>
    THEN [status |-> "ok", packets |-> <<>>, framecounter |-> fc, error |-> NoError]
    ELSE IF maxpacketsize - 1 = 0
    THEN [status |-> "panic", packets |-> <<>>, framecounter |-> fc, error |-> NoError]
    ELSE IF Len(chunks(data, maxpacketsize - 1)) > U8_MAX + 1
         THEN [status |-> "err", packets |-> <<>>, framecounter |-> fc,
               error |-> MoreThan255Chunks]
    ELSE [status |-> "ok",
          packets |-> packetize_loop(chunks(data, maxpacketsize - 1), fc, dest,
                                     disable_xbee_acks, request_xbee_tx_reports),
          framecounter |-> fc,
          error |-> NoError]

\* packetize_data: status "ok" with the packets, "err" (more than 255 chunks) or
\* "panic" (slice::chunks of size 0); framecounter is the stream's counter afterwards
packetize_data(fc, maxpacketsize, dest, data, disable_xbee_acks, request_xbee_tx_reports) ==
    IF data = <<>> THEN [status |-> "ok", packets |-> <<>>, framecounter |-> fc, error |-> NoError]
    ELSE IF maxpacketsize - 1 = 0
    THEN [status |-> "panic", packets |-> <<>>, framecounter |-> fc, error |-> NoError]
    ELSE IF Len(chunks(data, maxpacketsize - 1)) > U8_MAX
         THEN [status |-> "err", packets |-> <<>>, framecounter |-> fc,
               error |-> MoreThan255Chunks]
    ELSE [status |-> "ok",
          packets |-> packetize_loop(chunks(data, maxpacketsize - 1), fc, dest,
                                     disable_xbee_acks, request_xbee_tx_reports),
          framecounter |-> IF request_xbee_tx_reports
                           THEN framecounter_after(fc, Len(chunks(data, maxpacketsize - 1)))
                           ELSE fc,
          error |-> NoError]

-----------------------------------------------------------------------------
(* xbrx.rs: rxxbpacket *)

\* index of the first start delimiter 0x7e in s, 0 when there is none
FirstDelim(s) ==
    IF \E i \in 1..Len(s) : s[i] = 126
    THEN CHOOSE i \in 1..Len(s) : s[i] = 126 /\ \A j \in 1..(i - 1) : s[j] # 126
    ELSE 0

\* what rxxbpacket logs about a frame
ChecksumMismatch == "SERIN: Checksum mismatch"
TxStatus == "TX STATUS"
PacketFrom == "SERIN: packet from"
Non0x90Frame == "SERIN: Non-0x90 frame"
NoCall == ""

RxNone(rest) == [status |-> "none", packet |-> <<>>, rest |-> rest, log |-> Non0x90Frame]

RxPanic(rest) == [status |-> "panic", packet |-> <<>>, rest |-> rest, log |-> NoCall]

RxBlock(s) == [status |-> "block", packet |-> <<>>, rest |-> s, log |-> NoCall]

\* dispatch on the frame type of a frame whose checksum matched
rxdispatch(inner, rest) ==
    IF inner = <<>> THEN RxPanic(rest)
    ELSE IF inner[1] = 139
         THEN IF Len(inner) < 7 THEN RxPanic(rest)
              ELSE [RxNone(rest) EXCEPT !.log = TxStatus]
    ELSE IF inner[1] = 144
         THEN IF Len(inner) < 12 THEN RxPanic(rest)
              ELSE [status |-> "some",
                    packet |-> [sender_addr64 |-> SubSeq(inner, 2, 9),
                                sender_addr16 |-> inner[10] * 256 + inner[11],
                                rx_options |-> inner[12],
                                payload |-> SubSeq(inner, 13, Len(inner))],
                    rest |-> rest,
                    log |-> PacketFrom]
    ELSE RxNone(rest)

\* a parser that returns the frame without comparing the checksum
rxcheck_nochecksum(inner, checksum, rest) == rxdispatch(inner, rest)

\* the checksum comparison of rxxbpacket
rxcheck(inner, checksum, rest) ==
    IF xbchecksum(inner) # checksum
    THEN [RxNone(rest) EXCEPT !.log = ChecksumMismatch]
    ELSE rxdispatch(inner, rest)

\* rxxbpacket on the byte stream s: "block" while the frame is incomplete (read_exact
\* waits), else "none", "some" with the packet, or "panic"; rest is what stays unread
rxxbpacket(s) ==
    LET i == FirstDelim(s)
    IN IF i = 0 \/ Len(s) < i + 2
       THEN RxBlock(s)
       ELSE LET length == s[i + 1] * 256 + s[i + 2]
            IN IF Len(s) < i + 2 + length + 1
               THEN RxBlock(s)
               ELSE rxcheck(SubSeq(s, i + 3, i + 2 + length), s[i + 3 + length],
                            SubSeq(s, i + 4 + length, Len(s)))

-----------------------------------------------------------------------------
(* xbrx.rs: XBReframer *)

\* HashMap operations on a function whose domain is the set of keys
EmptyMap == [k \in {} |-> <<>>]

MapInsert(m, key, v) == [k \in (DOMAIN m) \cup {key} |-> IF k = key THEN v ELSE m[k]]

\* a remove that leaves the entry in place
MapRemove_keep(m, key) == m

MapRemove(m, key) == [k \in (DOMAIN m) \ {key} |-> m[k]]

\* a buffer keyed by the 16-bit sender address
buf_key_addr16(packet) == put_u16(packet.sender_addr16)

\* the key of a packet's buffer: self.buf.get(&packet.sender_addr64)
buf_key(packet) == packet.sender_addr64

NoReturn == [valid |-> FALSE, addr64 |-> <<>>, addr16 |-> 0, data |-> <<>>]

\* a reframer that takes the largest header value for the first chunk of a
\* datagram and forgets what it had buffered for the sender
rxframe_body_restart(b, packet) ==
    IF packet.payload = <<>> THEN [status |-> "panic", buf |-> b, ret |-> NoReturn]
    ELSE LET frame == (IF buf_key(packet) \in DOMAIN b /\ packet.payload[1] # MaxHeader
                       THEN b[buf_key(packet)] ELSE <<>>)
                          \o Tail(packet.payload)
         IN IF packet.payload[1] = 0
            THEN [status |-> "ok",
                  buf |-> MapRemove(b, buf_key(packet)),
                  ret |-> [valid |-> TRUE, addr64 |-> packet.sender_addr64,
                           addr16 |-> packet.sender_addr16, data |-> frame]]
            ELSE [status |-> "ok",
                  buf |-> MapInsert(b, buf_key(packet), frame),
                  ret |-> NoReturn]

\* a reframer that keeps the chunk header in front of each chunk's data
rxframe_body_keeps_header(b, packet) ==
    IF packet.payload = <<>> THEN [status |-> "panic", buf |-> b, ret |-> NoReturn]
    ELSE LET frame == (IF buf_key(packet) \in DOMAIN b THEN b[buf_key(packet)] ELSE <<>>)
                          \o packet.payload
         IN IF packet.payload[1] = 0
            THEN [status |-> "ok",
                  buf |-> MapRemove(b, buf_key(packet)),
                  ret |-> [valid |-> TRUE, addr64 |-> packet.sender_addr64,
                           addr16 |-> packet.sender_addr16, data |-> frame]]
            ELSE [status |-> "ok",
                  buf |-> MapInsert(b, buf_key(packet), frame),
                  ret |-> NoReturn]

\* one turn of the loop of rxframe on a packet from rxxbpacket_wait: the map
\* afterwards and the value returned (valid) or not (the loop goes on); indexing
\* an empty payload panics
rxframe_body(b, packet) ==
    IF packet.payload = <<>> THEN [status |-> "panic", buf |-> b, ret |-> NoReturn]
    ELSE LET frame == (IF buf_key(packet) \in DOMAIN b THEN b[buf_key(packet)] ELSE <<>>)
                          \o Tail(packet.payload)
         IN IF packet.payload[1] = 0
            THEN [status |-> "ok",
                  buf |-> MapRemove(b, buf_key(packet)),
                  ret |-> [valid |-> TRUE, addr64 |-> packet.sender_addr64,
                           addr16 |-> packet.sender_addr16, data |-> frame]]
            ELSE [status |-> "ok",
                  buf |-> MapInsert(b, buf_key(packet), frame),
                  ret |-> NoReturn]

\* the 0x90 frame the radio writes to the serial line for a received payload
rx_frame_inner(addr64, addr16, rx_options, payload) ==
    <<144>> \o addr64 \o put_u16(addr16) \o <<rx_options>> \o payload

rx_frame_bytes(addr64, addr16, rx_options, payload) ==
    <<126>> \o put_u16(Len(rx_frame_inner(addr64, addr16, rx_options, payload)))
        \o rx_frame_inner(addr64, addr16, rx_options, payload)
        \o <<xbchecksum(rx_frame_inner(addr64, addr16, rx_options, payload))>>

\* the same frame with its checksum byte damaged in transit
rx_frame_damaged(addr64, addr16, rx_options, payload) ==
    <<126>> \o put_u16(Len(rx_frame_inner(addr64, addr16, rx_options, payload)))
        \o rx_frame_inner(addr64, addr16, rx_options, payload)
        \o <<(xbchecksum(rx_frame_inner(addr64, addr16, rx_options, payload)) + 1) % 256>>

\* the remote senders; both report the 16-bit address 0xFFFE
Senders == {AddrA, AddrB}
SenderAddr16 == 65534

\* XBReframer::new, and the receive side before any frame arrived
RxIdle ==
    /\ serin = <<>>
    /\ buf = EmptyMap
    /\ rxret = NoReturn
    /\ rxlog = <<>>
    /\ rfstatus = "running"
    /\ rxcall = NoCall
    /\ nradio = 0

LinkIdle ==
    /\ air = [s \in Senders |-> <<>>]
    /\ handed = [s \in Senders |-> {}]
    /\ nsent = 0

\* one call of rxxbpacket by the thread in rxframe (through rxxbpacket_wait), and
\* on a Receive Packet the turn of rxframe's loop that processes it; survives
\* says whether the caller of rxframe lives through what it does with a datagram
\* that rxframe returns
ReaderCoreThen(survives) ==
    /\ rfstatus = "running"
    /\ rxxbpacket(serin).status # "block"
    /\ serin' = rxxbpacket(serin).rest
    /\ rxcall' = rxxbpacket(serin).log
    /\ IF rxxbpacket(serin).status = "panic"
       THEN /\ rfstatus' = "panicked"
            /\ rxret' = NoReturn
            /\ UNCHANGED <<buf, rxlog>>
       ELSE IF rxxbpacket(serin).status = "none"
       THEN /\ rxret' = NoReturn
            /\ UNCHANGED <<buf, rxlog, rfstatus>>
       ELSE LET r == rxframe_body(buf, rxxbpacket(serin).packet)
            IN IF r.status = "panic"
               THEN /\ rfstatus' = "panicked"
                    /\ rxret' = NoReturn
                    /\ UNCHANGED <<buf, rxlog>>
               ELSE /\ buf' = r.buf
                    /\ rxret' = r.ret
                    /\ rxlog' = Append(rxlog, rxxbpacket(serin).packet)
                    /\ rfstatus' = IF r.ret.valid /\ ~survives THEN "panicked" ELSE rfstatus

\* the callers of rxframe that cannot fail on a datagram
ReaderCore == ReaderCoreThen(TRUE)

ReaderStep ==
    /\ ReaderCore
    /\ UNCHANGED <<atVars, hostout, sync, codecVars, pkVars, linkVars, txVars, nradio>>

-----------------------------------------------------------------------------
(* The transmit pipeline: the producers of each subcommand, the bounded queue  *)
(* and the writer thread                                                       *)

\* producer inputs per run (enough to fill the queue and try once more)
MaxTxInputs == 6
\* bytes on standard input
MaxStdinLen == 6

\* the queue capacity of the radio controller
TxCapacity == 5

Modes == {"ping", "pong", "pipe", "tap", "tun"}

\* max_packet_size as the radio reports it
TxPacketSizes == {5}

\* the local radio, and the destination given on the command line
MyXbMac == <<0, 19, 162, 0, 64, 1, 2, 3>>
CmdDest == AddrA

ETHER_BROADCAST == <<255, 255, 255, 255, 255, 255>>

mac64to48(mac64) == SubSeq(mac64, 3, 8)

\* a | b and a & b on u8
RECURSIVE BitOr(_, _)
BitOr(a, b) ==
    IF a = 0 THEN b
    ELSE IF b = 0 THEN a
    ELSE (IF a % 2 = 1 \/ b % 2 = 1 THEN 1 ELSE 0) + 2 * BitOr(a \div 2, b \div 2)

RECURSIVE BitAnd(_, _)
BitAnd(a, b) ==
    IF a = 0 \/ b = 0 THEN 0
    ELSE (IF a % 2 = 1 /\ b % 2 = 1 THEN 1 ELSE 0) + 2 * BitAnd(a \div 2, b \div 2)

\* 0xffff000000000000
Top16Mask == <<255, 255, 0, 0, 0, 0, 0, 0>>

\* mac48to64 with the whole pattern or-ed in
mac48to64_nomask(mac48, pattern64) ==
    [i \in 1..8 |-> BitOr((<<0, 0>> \o mac48)[i], pattern64[i])]

\* mac48to64: the MAC in the low six bytes, or-ed with the masked pattern
mac48to64(mac48, pattern64) ==
    [i \in 1..8 |-> BitOr((<<0, 0>> \o mac48)[i], BitAnd(pattern64[i], Top16Mask[i]))]

\* XBTX
TXData(dest, data) == [kind |-> "TXData", dest |-> [kind |-> "U64", addr |-> dest], data |-> data]
Shutdown == [kind |-> "Shutdown", dest |-> [kind |-> "U64", addr |-> XB_BROADCAST], data |-> <<>>]
NoItem == [kind |-> "none", dest |-> [kind |-> "U64", addr |-> XB_BROADCAST], data |-> <<>>]

NoOpts == [maxpacketsize |-> 0, broadcast_unknown |-> FALSE, broadcast_everything |-> FALSE,
           disable_ipv4 |-> FALSE, disable_ipv6 |-> FALSE, max_ip_cache |-> 0,
           disable_xbee_acks |-> FALSE, request_xbee_tx_reports |-> FALSE]

\* --max-ip-cache, in ticks of the clock
IpCacheTime == 1

\* the flags each subcommand takes
OptsOf(m) ==
    {[maxpacketsize |-> mps, broadcast_unknown |-> bu, broadcast_everything |-> be,
      disable_ipv4 |-> d4, disable_ipv6 |-> d6, max_ip_cache |-> IpCacheTime,
      disable_xbee_acks |-> FALSE, request_xbee_tx_reports |-> FALSE] :
        mps \in TxPacketSizes,
        bu \in (IF m = "tap" THEN BOOLEAN ELSE {FALSE}),
        be \in (IF m \in {"tap", "tun"} THEN BOOLEAN ELSE {FALSE}),
        d4 \in (IF m = "tun" THEN BOOLEAN ELSE {FALSE}),
        d6 \in (IF m = "tun" THEN BOOLEAN ELSE {FALSE})}

Running == [state |-> "running", item |-> NoItem]

\* the mutex of dests is free, frames_from_xb_processor is in rxframe and the
\* thread that reads the device is in recv; got is what get_xb_dest_mac returned
NoSync == [holder |-> "free", reader |-> "rxframe", sender |-> "recv",
           got |-> [some |-> FALSE, mac |-> <<>>]]

\* XB::new and the host device in a specification that does not run them
AtIdle ==
    /\ atstate = [step |-> 0, status |-> "idle"]
    /\ atout = <<>>
    /\ atin = <<>>
    /\ hostout = <<>>
    /\ sync = NoSync

\* the pipeline variables of a specification that does not start a subcommand
TxIdle ==
    /\ mode = "none"
    /\ opts = NoOpts
    /\ txq = <<>>
    /\ prod = Running
    /\ counter = 1
    /\ stdin = <<>>
    /\ hostin = 0
    /\ hostframe = <<>>
    /\ tapdests = EmptyMap
    /\ tundests = EmptyMap
    /\ now = 0
    /\ wstate = "recv"
    /\ wpending = <<>>
    /\ wire = <<>>
    /\ mainstate = "running"
    /\ offered = <<>>
    /\ deq = <<>>

-----------------------------------------------------------------------------
(* The codec variables before any call, and in specifications that leave them alone *)

NoOut == [path |-> "none", ok |-> FALSE, bytes |-> <<>>]

\* no address conversion has been asked for
NoMacs == [mac64 |-> <<>>, pattern64 |-> <<>>, mac48 |-> <<>>, back |-> <<>>, calls |-> 0]

CodecIdle ==
    /\ txreq = [frame_id |-> 0, dest_addr |-> [kind |-> "U64", addr |-> XB_BROADCAST],
                broadcast_radius |-> 0, transmit_options |-> 0, payload |-> <<>>]
    /\ txout = NoOut
    /\ macs = NoMacs

-----------------------------------------------------------------------------
(* Packetizer specification: packetize_data called on one PacketStream *)

\* a long datagram of n bytes
LongData(n) == [i \in 1..n |-> (i * 7) % 256]

\* datagram bytes: one that looks like a terminal chunk header, and another
PkBytes == {0, 7}

\* <<max_packet_size, datagram>>: every short datagram at every size, the long
\* ones at the size that needs a chunk per byte
PkInputs ==
    ((1..MaxPacketSize) \X SeqsUpTo(PkBytes, MaxDataLen))
        \cup ({2} \X {LongData(n) : n \in LongLens})

PkDests == {[kind |-> "U64", addr |-> AddrA]}

NoPkIn == [maxpacketsize |-> 0, dest |-> [kind |-> "U64", addr |-> XB_BROADCAST],
           data |-> <<>>, disable_xbee_acks |-> FALSE, request_xbee_tx_reports |-> FALSE,
           framecounter |-> 0]

NoPkOut == [status |-> "none", packets |-> <<>>, framecounter |-> 0, error |-> NoError]

\* the packetizer variables of a specification that does not call it directly
PkIdle ==
    /\ framecounter = PacketStreamNew
    /\ pkin = NoPkIn
    /\ pkout = NoPkOut
    /\ pkcalls = 0

PkInit ==
    /\ CodecIdle
    /\ PkIdle
    /\ RxIdle
    /\ LinkIdle
    /\ AtIdle
    /\ TxIdle

Packetize(m, dest, data, acks, reports) ==
    /\ pkcalls < MaxCalls
    /\ pkout.status # "panic"
    /\ pkin' = [maxpacketsize |-> m, dest |-> dest, data |-> data,
                disable_xbee_acks |-> acks, request_xbee_tx_reports |-> reports,
                framecounter |-> framecounter]
    /\ pkout' = packetize_data(framecounter, m, dest, data, acks, reports)
    /\ framecounter' = pkout'.framecounter
    /\ pkcalls' = pkcalls + 1
    /\ UNCHANGED <<atVars, hostout, sync, codecVars, rxVars, linkVars, txVars>>

PkNext ==
    \E in \in PkInputs, dest \in PkDests, acks \in BOOLEAN, reports \in BOOLEAN :
        Packetize(in[1], dest, in[2], acks, reports)

SpecPacketize == PkInit /\ [][PkNext]_vars

-----------------------------------------------------------------------------
(* Transmit pipeline specification: one subcommand feeding the queue, and the  *)
(* writer thread draining it                                                   *)

\* how each producer hands its item to the channel
blocking_send == "send"
nonblocking_send == "try_send"
ping_send == "send"
pong_send == "send"
pipe_send == "send"
tap_send == "try_send"
tun_send == "try_send"

\* the state of the producer once the channel has taken the item:
\* stdin_processor returns after Shutdown, every other send is followed by the loop
AfterSend(item) == IF item.kind = "Shutdown" THEN "done" ELSE "running"

\* Sender::send / Sender::try_send on the bounded channel
Offer(item, kind) ==
    /\ offered' = Append(offered, item)
    /\ IF Len(txq) < TxCapacity
       THEN /\ txq' = Append(txq, item)
            /\ prod' = [state |-> AfterSend(item), item |-> NoItem]
       ELSE /\ txq' = txq
            /\ prod' = IF kind = "try_send"
                       THEN Running
                       ELSE [state |-> "blocked", item |-> item]

\* a send that was waiting for room completes
SendResume ==
    /\ mainstate = "running"
    /\ prod.state = "blocked"
    /\ Len(txq) < TxCapacity
    /\ txq' = Append(txq, prod.item)
    /\ prod' = [state |-> AfterSend(prod.item), item |-> NoItem]
    /\ counter' = IF mode = "ping" THEN counter + 1 ELSE counter
    /\ UNCHANGED <<atVars, hostout, sync, codecVars, pkVars, rxVars, linkVars, mode, opts, stdin, hostin, hostframe,
                   tapdests, tundests, now, wstate, wpending, wire, mainstate, offered, deq>>

\* format!("{}", n)
RECURSIVE ToDecimal(_)
ToDecimal(n) == IF n < 10 THEN <<48 + n>> ELSE ToDecimal(n \div 10) \o <<48 + (n % 10)>>

PingPrefix == <<80, 105, 110, 103, 32>>
PongPrefix == <<80, 111, 110, 103, 32>>

starts_with(s, p) == Len(s) >= Len(p) /\ SubSeq(s, 1, Len(p)) = p

\* a conversion that keeps every byte
from_utf8_unchecked(s) == s

\* String::from_utf8_lossy on ASCII bytes and stray 0xFF bytes: ASCII is kept,
\* a byte that cannot occur in UTF-8 becomes U+FFFD (EF BF BD)
RECURSIVE from_utf8_lossy(_)
from_utf8_lossy(s) ==
    IF s = <<>> THEN <<>>
    ELSE (IF Head(s) < 128 THEN <<Head(s)>> ELSE <<239, 191, 189>>) \o from_utf8_lossy(Tail(s))

\* genpings writing its frame to the serial port itself, next to the send
GenPings_direct ==
    /\ mode = "ping"
    /\ mainstate = "running"
    /\ prod.state = "running"
    /\ counter <= MaxTxInputs
    /\ Offer(TXData(CmdDest, PingPrefix \o ToDecimal(counter)), ping_send)
    /\ counter' = IF prod'.state = "blocked" THEN counter ELSE counter + 1
    /\ wire' = Append(wire, serialize([frame_id |-> 0,
                                       dest_addr |-> [kind |-> "U64", addr |-> CmdDest],
                                       broadcast_radius |-> 0, transmit_options |-> 0,
                                       payload |-> <<0>> \o PingPrefix]).bytes)
    /\ UNCHANGED <<atVars, hostout, sync, codecVars, pkVars, rxVars, linkVars, mode, opts, stdin, hostin, hostframe,
                   tapdests, tundests, now, wstate, wpending, mainstate, deq>>

\* genpings: one turn of the loop up to the end of the send
GenPings ==
    /\ mode = "ping"
    /\ mainstate = "running"
    /\ prod.state = "running"
    /\ counter <= MaxTxInputs
    /\ Offer(TXData(CmdDest, PingPrefix \o ToDecimal(counter)), ping_send)
    /\ counter' = IF prod'.state = "blocked" THEN counter ELSE counter + 1
    /\ UNCHANGED <<atVars, hostout, sync, codecVars, pkVars, rxVars, linkVars, mode, opts, stdin, hostin, hostframe,
                   tapdests, tundests, now, wstate, wpending, wire, mainstate, deq>>

\* datagrams that reach a pong station
PongPayloads == {<<0>> \o PingPrefix \o <<49>>, <<0, 72, 105>>}

\* the radio has received a frame with this payload from station s
PongRadioFrame(s, payload) ==
    /\ mode = "pong"
    /\ mainstate = "running"
    /\ nradio < MaxTxInputs
    /\ serin = <<>>
    /\ serin' = rx_frame_bytes(s, SenderAddr16, 1, payload)
    /\ nradio' = nradio + 1
    /\ UNCHANGED <<atVars, hostout, sync, codecVars, pkVars, linkVars, txVars, buf, rxret, rxlog, rfstatus,
                   rxcall>>

\* pong: the thread in rxframe reads a frame, and answers a datagram that is a ping
Pong ==
    /\ mode = "pong"
    /\ mainstate = "running"
    /\ prod.state = "running"
    /\ ReaderCore
    /\ IF rxret'.valid /\ starts_with(rxret'.data, PingPrefix)
       THEN Offer(TXData(rxret'.addr64,
                         PongPrefix \o from_utf8_lossy(SubSeq(rxret'.data, 6, Len(rxret'.data)))),
                  pong_send)
       ELSE UNCHANGED <<txq, prod, offered>>
    /\ UNCHANGED <<atVars, hostout, sync, codecVars, pkVars, linkVars, nradio, mode, opts, counter, stdin, hostin, hostframe,
                   tapdests, tundests, now, wstate, wpending, wire, mainstate, deq>>

\* the bytes on standard input
StdinBytes(n) == [i \in 1..n |-> 64 + i]

\* a read into a buffer as long as the input
StdinReads_unbounded(in, maxpacketsize) ==
    IF in = <<>> THEN {0} ELSE 1..Len(in)

\* what br.read(&mut buf) can return for a buffer of maxframesize - 1 bytes,
\* maxframesize being max_packet_size - 1
StdinReads(in, maxpacketsize) ==
    IF in = <<>> \/ maxpacketsize - 2 = 0
    THEN {0}
    ELSE 1..Min(Len(in), maxpacketsize - 2)

\* stdin_processor: one turn of the loop
StdinRead(res) ==
    /\ mode = "pipe"
    /\ mainstate = "running"
    /\ prod.state = "running"
    /\ res \in StdinReads(stdin, opts.maxpacketsize)
    /\ IF res = 0
       THEN /\ Offer(Shutdown, pipe_send)
            /\ stdin' = stdin
       ELSE /\ Offer(TXData(CmdDest, SubSeq(stdin, 1, res)), pipe_send)
            /\ stdin' = SubSeq(stdin, res + 1, Len(stdin))
    /\ UNCHANGED <<atVars, hostout, sync, codecVars, pkVars, rxVars, linkVars, mode, opts, counter, hostin, hostframe,
                   tapdests, tundests, now, wstate, wpending, wire, mainstate, deq>>

\* stdin_processor: the read fails, the error reaches expect() in main
StdinError ==
    /\ mode = "pipe"
    /\ mainstate = "running"
    /\ prod.state = "running"
    /\ prod' = [state |-> "failed", item |-> NoItem]
    /\ mainstate' = "panicked"
    /\ UNCHANGED <<atVars, hostout, sync, codecVars, pkVars, rxVars, linkVars, mode, opts, txq, counter, stdin, hostin, hostframe,
                   tapdests, tundests, now, wstate, wpending, wire, offered, deq>>

\* an Ethernet II frame with an EtherType (0x88B5) that carries no IP header
EtherFrame(destination, source, payload) == destination \o source \o <<136, 181>> \o payload

\* frames the kernel hands to the tap device: a broadcast, a unicast to a
\* station, and a runt
TapFrames ==
    { EtherFrame(ETHER_BROADCAST, mac64to48(MyXbMac), <<1>>),
      EtherFrame(mac64to48(AddrA), mac64to48(MyXbMac), <<2>>),
      <<1, 2, 3>> }

\* SlicedPacket::from_ethernet, for frames without a VLAN or IP EtherType: the
\* 14 header bytes must be there
from_ethernet(data) ==
    IF Len(data) < 14
    THEN [ok |-> FALSE, destination |-> <<>>, source |-> <<>>]
    ELSE [ok |-> TRUE, destination |-> SubSeq(data, 1, 6), source |-> SubSeq(data, 7, 12)]

\* XBTap::new_tap: the translation map starts with the broadcast address
TapSeed == MapInsert(EmptyMap, ETHER_BROADCAST, XB_BROADCAST)

\* broadcast_unknown consulted before the map
tap_get_xb_dest_mac_unknown_first(o, dests, ethermac) ==
    IF o.broadcast_everything \/ o.broadcast_unknown
    THEN [some |-> TRUE, mac |-> XB_BROADCAST]
    ELSE IF ethermac \notin DOMAIN dests
    THEN [some |-> FALSE, mac |-> <<>>]
    ELSE [some |-> TRUE, mac |-> dests[ethermac]]

\* XBTap::get_xb_dest_mac
tap_get_xb_dest_mac(o, dests, ethermac) ==
    IF o.broadcast_everything
    THEN [some |-> TRUE, mac |-> XB_BROADCAST]
    ELSE IF ethermac \notin DOMAIN dests
    THEN (IF o.broadcast_unknown
          THEN [some |-> TRUE, mac |-> XB_BROADCAST]
          ELSE [some |-> FALSE, mac |-> <<>>])
    ELSE [some |-> TRUE, mac |-> dests[ethermac]]

\* frames_from_tap_processor: one turn of the loop
TapRead(tapdata) ==
    /\ mode = "tap"
    /\ mainstate = "running"
    /\ prod.state = "running"
    /\ hostin < MaxTxInputs
    /\ hostin' = hostin + 1
    /\ hostframe' = tapdata
    /\ IF ~from_ethernet(tapdata).ok
       THEN UNCHANGED <<txq, prod, offered>>
       ELSE LET d == tap_get_xb_dest_mac(opts, tapdests, from_ethernet(tapdata).destination)
            IN IF ~d.some
               THEN UNCHANGED <<txq, prod, offered>>
               ELSE Offer(TXData(d.mac, tapdata), tap_send)
    /\ UNCHANGED <<atVars, hostout, sync, codecVars, pkVars, rxVars, linkVars, mode, opts, counter, stdin,
                   tapdests, tundests, now, wstate, wpending, wire, mainstate, deq>>

\* IP packets with a protocol number (253) that carries no transport header
Ipv4Packet(source, destination, payload) ==
    <<69, 0>> \o put_u16(20 + Len(payload)) \o <<0, 0, 0, 0, 64, 253, 0, 0>>
        \o source \o destination \o payload

Ipv6Packet(source, destination, payload) ==
    <<96, 0, 0, 0>> \o put_u16(Len(payload)) \o <<253, 64>> \o source \o destination \o payload

Ip4Local == <<10, 0, 0, 1>>
Ip4Peer == <<10, 0, 0, 2>>
Ip6Local == <<253, 0, 0, 0, 0, 0, 0, 0, 0, 0, 0, 0, 0, 0, 0, 1>>
Ip6Peer == <<253, 0, 0, 0, 0, 0, 0, 0, 0, 0, 0, 0, 0, 0, 0, 2>>

\* packets the kernel hands to the tun device: IPv4, IPv6, and bytes that are neither
TunPackets ==
    { Ipv4Packet(Ip4Local, Ip4Peer, <<>>),
      Ipv6Packet(Ip6Local, Ip6Peer, <<>>),
      <<0>> }

\* IpAddr
IpV4(a) == [v |-> 4, a |-> a]
IpV6(a) == [v |-> 6, a |-> a]

IpErr == [ok |-> FALSE, source |-> IpV4(<<>>), destination |-> IpV4(<<>>)]

\* SlicedPacket::from_ip followed by extract_ips, for packets without a
\* transport header: the version nibble selects the header, which must be whole
from_ip(data) ==
    IF data = <<>> THEN IpErr
    ELSE IF data[1] \div 16 = 4
    THEN (IF Len(data) < 20 \/ data[1] % 16 < 5 \/ Len(data) < (data[1] % 16) * 4
             \/ data[3] * 256 + data[4] < (data[1] % 16) * 4
          THEN IpErr
          ELSE [ok |-> TRUE, source |-> IpV4(SubSeq(data, 13, 16)),
                destination |-> IpV4(SubSeq(data, 17, 20))])
    ELSE IF data[1] \div 16 = 6
    THEN (IF Len(data) < 40
          THEN IpErr
          ELSE [ok |-> TRUE, source |-> IpV6(SubSeq(data, 9, 24)),
                destination |-> IpV6(SubSeq(data, 25, 40))])
    ELSE IpErr

\* the lookup without the test of the expiration time
tun_get_xb_dest_mac_noexpiry(o, dests, t, ipaddr) ==
    IF o.broadcast_everything
    THEN XB_BROADCAST
    ELSE IF ipaddr \notin DOMAIN dests
    THEN XB_BROADCAST
    ELSE dests[ipaddr].dest

\* XBTun::get_xb_dest_mac at time t
tun_get_xb_dest_mac(o, dests, t, ipaddr) ==
    IF o.broadcast_everything
    THEN XB_BROADCAST
    ELSE IF ipaddr \notin DOMAIN dests
    THEN XB_BROADCAST
    ELSE IF t >= dests[ipaddr].expiration
    THEN XB_BROADCAST
    ELSE dests[ipaddr].dest

\* the check left out
family_disabled_never(o, ipaddr) == FALSE

\* --disable-ipv4 / --disable-ipv6 given for the family of this address
family_disabled(o, ipaddr) ==
    \/ ipaddr.v = 6 /\ o.disable_ipv6
    \/ ipaddr.v = 4 /\ o.disable_ipv4

\* a turn of the loop whose lookup removes the entry it finds expired
TunRead_evicts(tundata) ==
    /\ mode = "tun"
    /\ mainstate = "running"
    /\ prod.state = "running"
    /\ hostin < MaxTxInputs
    /\ hostin' = hostin + 1
    /\ hostframe' = tundata
    /\ IF ~from_ip(tundata).ok
       THEN UNCHANGED <<txq, prod, offered, tundests>>
       ELSE IF family_disabled(opts, from_ip(tundata).destination)
       THEN UNCHANGED <<txq, prod, offered, tundests>>
       ELSE /\ Offer(TXData(tun_get_xb_dest_mac(opts, tundests, now,
                                                from_ip(tundata).destination),
                            tundata),
                     tun_send)
            /\ tundests' = IF /\ ~opts.broadcast_everything
                              /\ from_ip(tundata).destination \in DOMAIN tundests
                              /\ now >= tundests[from_ip(tundata).destination].expiration
                           THEN MapRemove(tundests, from_ip(tundata).destination)
                           ELSE tundests
    /\ UNCHANGED <<atVars, hostout, sync, codecVars, pkVars, rxVars, linkVars, mode, opts, counter, stdin,
                   tapdests, now, wstate, wpending, wire, mainstate, deq>>

\* frames_from_tun_processor: one turn of the loop
TunRead(tundata) ==
    /\ mode = "tun"
    /\ mainstate = "running"
    /\ prod.state = "running"
    /\ hostin < MaxTxInputs
    /\ hostin' = hostin + 1
    /\ hostframe' = tundata
    /\ IF ~from_ip(tundata).ok
       THEN UNCHANGED <<txq, prod, offered>>
       ELSE IF family_disabled(opts, from_ip(tundata).destination)
       THEN UNCHANGED <<txq, prod, offered>>
       ELSE Offer(TXData(tun_get_xb_dest_mac(opts, tundests, now,
                                             from_ip(tundata).destination),
                         tundata),
                  tun_send)
    /\ UNCHANGED <<atVars, hostout, sync, codecVars, pkVars, rxVars, linkVars, mode, opts, counter, stdin,
                   tapdests, tundests, now, wstate, wpending, wire, mainstate, deq>>

\* the writer thread takes the next item from the queue: Shutdown ends it, a
\* datagram goes through packetize_data
WriterRecv ==
    /\ mainstate = "running"
    /\ wstate = "recv"
    /\ txq # <<>>
    /\ txq' = Tail(txq)
    /\ deq' = Append(deq, Head(txq))
    /\ IF Head(txq).kind = "Shutdown"
       THEN /\ wstate' = "exited"
            /\ UNCHANGED <<framecounter, wpending>>
       ELSE LET r == packetize_data(framecounter, opts.maxpacketsize, Head(txq).dest,
                                    Head(txq).data, opts.disable_xbee_acks,
                                    opts.request_xbee_tx_reports)
            IN /\ framecounter' = r.framecounter
               /\ wpending' = IF r.status = "ok" THEN r.packets ELSE <<>>
               /\ wstate' = IF r.status = "panic" THEN "panicked"
                            ELSE IF r.status = "ok" /\ r.packets # <<>> THEN "writing"
                            ELSE "recv"
    /\ UNCHANGED <<atVars, hostout, sync, codecVars, pkin, pkout, pkcalls, rxVars, linkVars, mode, opts, prod, counter,
                   stdin, hostin, hostframe, tapdests, tundests, now, wire, mainstate, offered>>

\* the writer thread serializes the next TX Request of the item and writes it,
\* with a flush, to the serial port; an item that does not serialize is dropped
WriterWrite ==
    /\ mainstate = "running"
    /\ wstate = "writing"
    /\ IF serialize(Head(wpending)).ok
       THEN /\ wire' = Append(wire, serialize(Head(wpending)).bytes)
            /\ wpending' = Tail(wpending)
       ELSE /\ wire' = wire
            /\ wpending' = <<>>
    /\ wstate' = IF wpending' = <<>> THEN "recv" ELSE "writing"
    /\ UNCHANGED <<atVars, hostout, sync, codecVars, pkVars, rxVars, linkVars, mode, opts, txq, prod, counter,
                   stdin, hostin, hostframe, tapdests, tundests, now, mainstate, offered, deq>>

\* main of the pipe subcommand: stdin_processor has returned Ok, join returns
\* once the writer thread has ended, and main returns
MainJoin ==
    /\ mode = "pipe"
    /\ mainstate = "running"
    /\ prod.state = "done"
    /\ wstate = "exited"
    /\ mainstate' = "exited"
    /\ UNCHANGED <<atVars, hostout, sync, codecVars, pkVars, rxVars, linkVars, mode, opts, txq, prod, counter, stdin,
                   hostin, hostframe, tapdests, tundests, now, wstate, wpending, wire, offered, deq>>

TxInit ==
    /\ CodecIdle
    /\ PkIdle
    /\ RxIdle
    /\ LinkIdle
    /\ AtIdle
    /\ mode \in Modes
    /\ opts \in OptsOf(mode)
    /\ txq = <<>>
    /\ prod = Running
    /\ counter = 1
    /\ stdin \in (IF mode = "pipe" THEN {StdinBytes(n) : n \in 0..MaxStdinLen} ELSE {<<>>})
    /\ hostin = 0
    /\ hostframe = <<>>
    /\ tapdests = IF mode = "tap" THEN TapSeed ELSE EmptyMap
    /\ tundests = EmptyMap
    /\ now = 0
    /\ wstate = "recv"
    /\ wpending = <<>>
    /\ wire = <<>>
    /\ mainstate = "running"
    /\ offered = <<>>
    /\ deq = <<>>

Writer == WriterRecv \/ WriterWrite

TxNext ==
    \/ GenPings
    \/ \E payload \in PongPayloads : PongRadioFrame(AddrA, payload)
    \/ Pong
    \/ \E res \in 0..MaxStdinLen : StdinRead(res)
    \/ StdinError
    \/ \E tapdata \in TapFrames : TapRead(tapdata)
    \/ \E tundata \in TunPackets : TunRead(tundata)
    \/ SendResume
    \/ WriterRecv
    \/ WriterWrite
    \/ MainJoin

SpecTx == TxInit /\ [][TxNext]_vars

\* the pipe subcommand on its own
PipeInit == TxInit /\ mode = "pipe"

PipeNext ==
    \/ \E res \in 0..MaxStdinLen : StdinRead(res)
    \/ StdinError
    \/ SendResume
    \/ WriterRecv
    \/ WriterWrite
    \/ MainJoin

SpecPipe == PipeInit /\ [][PipeNext]_vars

\* the scheduler runs every thread that can take a step: the writer thread in
\* recv or in a write, a sender waiting for room once there is room, and main
\* once join can return
FairSpecPipe ==
    /\ SpecPipe
    /\ WF_vars(WriterRecv)
    /\ WF_vars(WriterWrite)
    /\ WF_vars(SendResume)
    /\ WF_vars(MainJoin)

-----------------------------------------------------------------------------
(* Writer specification: holders of the sender handle enqueue any TXData item, *)
(* the writer thread drains the queue                                          *)

\* items offered to the writer per run
MaxWriterItems == 3

\* the smallest max_packet_size that packetizes: one data byte per chunk
WriterPacketSize == 2

\* datagrams: none, one chunk, two chunks, 255 chunks' worth and one byte more
WriterData == {<<>>, <<7>>, <<7, 9>>, LongData(256)}

WriterInit ==
    /\ CodecIdle
    /\ PkIdle
    /\ RxIdle
    /\ LinkIdle
    /\ AtIdle
    /\ mode = "send"
    /\ opts = [NoOpts EXCEPT !.maxpacketsize = WriterPacketSize]
    /\ txq = <<>>
    /\ prod = Running
    /\ counter = 1
    /\ stdin = <<>>
    /\ hostin = 0
    /\ hostframe = <<>>
    /\ tapdests = EmptyMap
    /\ tundests = EmptyMap
    /\ now = 0
    /\ wstate = "recv"
    /\ wpending = <<>>
    /\ wire = <<>>
    /\ mainstate = "running"
    /\ offered = <<>>
    /\ deq = <<>>

\* a thread that holds the sender handle offers a datagram to the queue
ClientSend(data) ==
    /\ mode = "send"
    /\ Len(offered) < MaxWriterItems
    /\ Offer(TXData(CmdDest, data), "try_send")
    /\ UNCHANGED <<atVars, hostout, sync, codecVars, pkVars, rxVars, linkVars, mode, opts, counter, stdin, hostin, hostframe,
                   tapdests, tundests, now, wstate, wpending, wire, mainstate, deq>>

WriterNext ==
    \/ \E data \in WriterData : ClientSend(data)
    \/ WriterRecv
    \/ WriterWrite

SpecWriter == WriterInit /\ [][WriterNext]_vars

\* ---------------------------------------------------------------------------
\* The ping subcommand on its own: genpings feeding the writer thread

\* max_packet_size of a radio set to short packets and of one reporting 256
PingPacketSizes == {5, 256}

PingOpts ==
    {[NoOpts EXCEPT !.maxpacketsize = mps, !.disable_xbee_acks = da,
                    !.request_xbee_tx_reports = rr] :
        mps \in PingPacketSizes, da \in BOOLEAN, rr \in BOOLEAN}

PingInit ==
    /\ CodecIdle
    /\ PkIdle
    /\ RxIdle
    /\ LinkIdle
    /\ AtIdle
    /\ mode = "ping"
    /\ opts \in PingOpts
    /\ txq = <<>>
    /\ prod = Running
    /\ counter = 1
    /\ stdin = <<>>
    /\ hostin = 0
    /\ hostframe = <<>>
    /\ tapdests = EmptyMap
    /\ tundests = EmptyMap
    /\ now = 0
    /\ wstate = "recv"
    /\ wpending = <<>>
    /\ wire = <<>>
    /\ mainstate = "running"
    /\ offered = <<>>
    /\ deq = <<>>

PingNext ==
    \/ GenPings
    \/ SendResume
    \/ WriterRecv
    \/ WriterWrite

SpecPing == PingInit /\ [][PingNext]_vars

-----------------------------------------------------------------------------
(* Pong specification: the pong subcommand answering two stations            *)

\* frames the radio receives per run
MaxPongFrames == 6

\* single-chunk datagrams that reach the pong station, with their senders:
\* "Ping 1", "Ping " with a byte that is not UTF-8 and a digit, and "Pong 1"
PongDatagrams ==
    {<<AddrA, <<0>> \o PingPrefix \o <<49>>>>,
     <<AddrB, <<0>> \o PingPrefix \o <<255, 49>>>>,
     <<AddrA, <<0>> \o PongPrefix \o <<49>>>>}

PongInit == TxInit /\ mode = "pong"

PongNext ==
    \/ \E rx \in PongDatagrams : nradio < MaxPongFrames /\ PongRadioFrame(rx[1], rx[2])
    \/ Pong
    \/ SendResume
    \/ WriterRecv
    \/ WriterWrite

SpecPong == PongInit /\ [][PongNext]_vars

-----------------------------------------------------------------------------
(* Startup specification: XB::new talks to the radio in command mode *)

\* "OK", and what XB::new writes
OK == <<79, 75>>
PlusPlusPlus == <<43, 43, 43>>
ATAP1 == <<65, 84, 65, 80, 32, 49>>
ATAO0 == <<65, 84, 65, 79, 32, 48>>
ATSH == <<65, 84, 83, 72>>
ATSL == <<65, 84, 83, 76>>
ATNP == <<65, 84, 78, 80>>
ATCN == <<65, 84, 67, 78>>

\* XBSer::writeln: the data followed by CR LF
writeln(data) == data \o <<13, 10>>

\* str::trim, for ASCII: white space is cut from both ends
IsSpace(b) == b \in {9, 10, 11, 12, 13, 32}

RECURSIVE trim_start(_)
trim_start(s) == IF s # <<>> /\ IsSpace(Head(s)) THEN trim_start(Tail(s)) ELSE s

RECURSIVE trim_end(_)
trim_end(s) ==
    IF s # <<>> /\ IsSpace(s[Len(s)]) THEN trim_end(SubSeq(s, 1, Len(s) - 1)) ELSE s

trim(s) == trim_end(trim_start(s))

\* XBSer::readln on the bytes read_until(0x0D) has delivered (at least one)
readln(raw) == trim(from_utf8_lossy(raw))

\* assert_response: Ok (TRUE) or Err (FALSE)
assert_response(resp, expected) == resp = expected

\* the serial writes of XB::new, in program order; a line is read after each
StartupWrites ==
    << PlusPlusPlus, writeln(ATAP1), writeln(ATAO0), writeln(ATSH), writeln(ATSL),
       writeln(ATNP), writeln(ATCN) >>

\* the reads whose line is handed to assert_response(.., "OK")
AssertedReads == {1, 2, 3, 7}

\* lines the radio sends: OK, ERROR, and a hexadecimal value
RadioLines == { OK \o <<13>>, <<69, 82, 82, 79, 82, 13>>, <<52, 65, 13>> }

StartupInit ==
    /\ CodecIdle
    /\ PkIdle
    /\ RxIdle
    /\ LinkIdle
    /\ TxIdle
    /\ atstate = [step |-> 1, status |-> "writing"]
    /\ atout = <<>>
    /\ atin = <<>>
    /\ hostout = <<>>
    /\ sync = NoSync

\* XB::new writes its next command (flushed); lines counts the lines read before
StartupWrite ==
    /\ atstate.status = "writing"
    /\ atout' = Append(atout, [bytes |-> StartupWrites[atstate.step], lines |-> Len(atin)])
    /\ atstate' = [atstate EXCEPT !.status = "reading"]
    /\ UNCHANGED <<atin, hostout, sync, codecVars, pkVars, rxVars, linkVars, txVars>>

\* XB::new reads the line that follows; where the line goes to assert_response
\* the Result is not used, and the next statement runs; after the last line
\* XB::new returns the controller
StartupRead(raw) ==
    /\ atstate.status = "reading"
    /\ atin' = Append(atin, readln(raw))
    /\ atstate' = IF atstate.step = Len(StartupWrites)
                  THEN [atstate EXCEPT !.status = "operational"]
                  ELSE [step |-> atstate.step + 1, status |-> "writing"]
    /\ UNCHANGED <<atout, hostout, sync, codecVars, pkVars, rxVars, linkVars, txVars>>

\* a write or a read on the serial port returns an error, which `?` hands up
StartupIoError ==
    /\ atstate.status \in {"writing", "reading"}
    /\ atstate' = [atstate EXCEPT !.status = "failed"]
    /\ UNCHANGED <<atout, atin, hostout, sync, codecVars, pkVars, rxVars, linkVars, txVars>>

StartupNext ==
    \/ StartupWrite
    \/ \E raw \in RadioLines : StartupRead(raw)
    \/ StartupIoError

SpecStartup == StartupInit /\ [][StartupNext]_vars

-----------------------------------------------------------------------------
(* Bridge specifications: the TAP and the TUN bridge, with the thread that     *)
(* reads the device and the thread that reads the radio                        *)

\* datagrams received from the radio, and frames read from the device, per run
MaxBridgeRx == 2
MaxBridgeReads == 2
\* ticks of the clock per run
MaxTime == 1

\* the radio has received a datagram of one chunk from station s and writes its
\* 0x90 frame to the serial line
BridgeRadioFrame(s, datagram) ==
    /\ mode \in {"tap", "tun"}
    /\ nradio < MaxBridgeRx
    /\ serin = <<>>
    /\ serin' = rx_frame_bytes(s, SenderAddr16, 1, <<0>> \o datagram)
    /\ nradio' = nradio + 1
    /\ UNCHANGED <<atVars, hostout, sync, codecVars, pkVars, linkVars, txVars,
                   buf, rxret, rxlog, rfstatus,
                   rxcall>>

\* the entry of hostout for a datagram handed to the device's send: the
\* datagram, whether send returned Ok, and for the record the station the
\* datagram came from and the time
Delivered(ret, t, sent) == [from |-> ret.addr64, at |-> t, data |-> ret.data, ok |-> sent]

\* Ethernet frames that stations send: from a station's own MAC, from the
\* broadcast MAC as source, and a runt
TapRxDatagrams ==
    { EtherFrame(mac64to48(MyXbMac), mac64to48(AddrA), <<3>>),
      EtherFrame(mac64to48(MyXbMac), ETHER_BROADCAST, <<4>>),
      <<1, 2, 3>> }

\* the map keeps the address it learnt first
tap_learn_keepfirst(dests, source, fromu64) ==
    IF source \in DOMAIN dests THEN dests ELSE MapInsert(dests, source, fromu64)

\* self.dests.lock().unwrap().insert(header.source(), fromu64)
tap_learn(dests, source, fromu64) == MapInsert(dests, source, fromu64)

\* frames_from_xb_processor learning the source whatever broadcast_everything says
TapRecv_learns_always ==
    /\ mode = "tap"
    /\ mainstate = "running"
    /\ \E sent \in BOOLEAN :
          /\ ReaderCoreThen(sent)
          /\ IF rxret'.valid
             THEN /\ tapdests' = IF from_ethernet(rxret'.data).ok
                                 THEN tap_learn(tapdests, from_ethernet(rxret'.data).source,
                                                rxret'.addr64)
                                 ELSE tapdests
                  /\ hostout' = Append(hostout, Delivered(rxret', now, sent))
             ELSE UNCHANGED <<tapdests, hostout>>
    /\ UNCHANGED <<atVars, sync, codecVars, pkVars, linkVars, nradio, mode, opts, txq, prod, counter,
                   stdin, hostin, hostframe, tundests, now, wstate, wpending, wire, mainstate,
                   offered, deq>>

\* XBTap::frames_from_xb_processor: one turn of the loop, from the read of a
\* frame in rxframe to the write to the tap device; an Err of send is returned
\* with ? and the thread ends in the expect of main
TapRecv ==
    /\ mode = "tap"
    /\ mainstate = "running"
    /\ \E sent \in BOOLEAN :
          /\ ReaderCoreThen(sent)
          /\ IF rxret'.valid
             THEN /\ tapdests' = IF from_ethernet(rxret'.data).ok /\ ~opts.broadcast_everything
                                 THEN tap_learn(tapdests, from_ethernet(rxret'.data).source,
                                                rxret'.addr64)
                                 ELSE tapdests
                  /\ hostout' = Append(hostout, Delivered(rxret', now, sent))
             ELSE UNCHANGED <<tapdests, hostout>>
    /\ UNCHANGED <<atVars, sync, codecVars, pkVars, linkVars, nradio, mode, opts, txq, prod, counter,
                   stdin, hostin, hostframe, tundests, now, wstate, wpending, wire, mainstate,
                   offered, deq>>

TapInit == TxInit /\ mode = "tap"

TapNext ==
    \/ \E s \in Senders, datagram \in TapRxDatagrams : BridgeRadioFrame(s, datagram)
    \/ TapRecv
    \/ \E tapdata \in TapFrames : hostin < MaxBridgeReads /\ TapRead(tapdata)

SpecTap == TapInit /\ [][TapNext]_vars

\* IP datagrams that stations send: IPv4 from the peer address by either
\* station, IPv6, and bytes that are neither
TunRxDatagrams ==
    { <<AddrA, Ipv4Packet(Ip4Peer, Ip4Local, <<>>)>>,
      <<AddrB, Ipv4Packet(Ip4Peer, Ip4Local, <<>>)>>,
      <<AddrA, Ipv6Packet(Ip6Peer, Ip6Local, <<>>)>>,
      <<AddrB, <<0>>>> }

\* the map entry without an expiration time
tun_learn_forever(dests, source, fromu64, t, max_ip_cache) ==
    MapInsert(dests, source, [dest |-> fromu64, expiration |-> t + max_ip_cache + MaxTime + 1])

\* self.dests.lock().unwrap().insert(source, (fromu64, Instant::now() + max_ip_cache))
tun_learn(dests, source, fromu64, t, max_ip_cache) ==
    MapInsert(dests, source, [dest |-> fromu64, expiration |-> t + max_ip_cache])

\* XBTun::frames_from_xb_processor: one turn of the loop, from the read of a
\* frame in rxframe to the write to the tun device; an Err of send is logged
TunRecv ==
    /\ mode = "tun"
    /\ mainstate = "running"
    /\ ReaderCore
    /\ IF rxret'.valid
       THEN IF from_ip(rxret'.data).ok /\ family_disabled(opts, from_ip(rxret'.data).source)
            THEN UNCHANGED <<tundests, hostout>>
            ELSE /\ tundests' = IF from_ip(rxret'.data).ok /\ ~opts.broadcast_everything
                                THEN tun_learn(tundests, from_ip(rxret'.data).source,
                                               rxret'.addr64, now, opts.max_ip_cache)
                                ELSE tundests
                 /\ \E sent \in BOOLEAN :
                       hostout' = Append(hostout, Delivered(rxret', now, sent))
       ELSE UNCHANGED <<tundests, hostout>>
    /\ UNCHANGED <<atVars, sync, codecVars, pkVars, linkVars, nradio, mode, opts, txq, prod, counter,
                   stdin, hostin, hostframe, tapdests, now, wstate, wpending, wire, mainstate,
                   offered, deq>>

\* time passes
Tick ==
    /\ mode = "tun"
    /\ now < MaxTime
    /\ now' = now + 1
    /\ UNCHANGED <<atVars, hostout, sync, codecVars, pkVars, rxVars, linkVars, mode, opts, txq, prod,
                   counter, stdin, hostin, hostframe, tapdests, tundests, wstate, wpending,
                   wire, mainstate, offered, deq>>

TunInit == TxInit /\ mode = "tun"

TunNext ==
    \/ \E rx \in TunRxDatagrams : BridgeRadioFrame(rx[1], rx[2])
    \/ TunRecv
    \/ \E tundata \in TunPackets : hostin < MaxBridgeReads /\ TunRead(tundata)
    \/ Tick

SpecTun == TunInit /\ [][TunNext]_vars

\* either bridge
BridgeInit == TapInit \/ TunInit

BridgeNext ==
    \/ mode = "tap" /\ TapNext
    \/ mode = "tun" /\ TunNext

SpecBridge == BridgeInit /\ [][BridgeNext]_vars

-----------------------------------------------------------------------------
(* Lock specification: the two threads of a bridge step by step, with the      *)
(* mutex of dests taken and released where the code takes and releases it      *)

\* the parsed header of a frame or packet, for the bridge that runs
Header(data) == IF mode = "tap" THEN from_ethernet(data) ELSE from_ip(data)

\* frames_from_xb_processor inserts the source of this datagram
Learns(data) ==
    /\ Header(data).ok
    /\ ~opts.broadcast_everything

\* frames_from_xb_processor drops this datagram before the insert and the write
DroppedByFamily(address) == mode = "tun" /\ family_disabled(opts, address)

\* frames_from_xb_processor: rxframe, up to the datagram it returns
XbProc_rxframe ==
    /\ mode \in {"tap", "tun"}
    /\ sync.reader = "rxframe"
    /\ ReaderCore
    /\ sync' = [sync EXCEPT !.reader =
                    IF ~rxret'.valid THEN "rxframe"
                    ELSE IF Header(rxret'.data).ok
                            /\ DroppedByFamily(Header(rxret'.data).source) THEN "rxframe"
                    ELSE IF Learns(rxret'.data) THEN "lock"
                    ELSE "send"]
    /\ UNCHANGED <<atVars, hostout, codecVars, pkVars, linkVars, txVars, nradio>>

\* an insert made without the mutex
XbProc_insert_unlocked ==
    /\ sync.reader = "lock"
    /\ sync' = [sync EXCEPT !.reader = "send"]
    /\ IF mode = "tap"
       THEN /\ tapdests' = tap_learn(tapdests, Header(rxret.data).source, rxret.addr64)
            /\ UNCHANGED tundests
       ELSE /\ tundests' = tun_learn(tundests, Header(rxret.data).source, rxret.addr64,
                                     now, opts.max_ip_cache)
            /\ UNCHANGED tapdests
    /\ UNCHANGED <<atVars, hostout, codecVars, pkVars, rxVars, linkVars, mode, opts, txq, prod,
                   counter, stdin, hostin, hostframe, now, wstate, wpending, wire, mainstate,
                   offered, deq>>

\* frames_from_xb_processor: self.dests.lock().unwrap() returns
XbProc_lock ==
    /\ sync.reader = "lock"
    /\ sync.holder = "free"
    /\ sync' = [sync EXCEPT !.holder = "reader", !.reader = "insert"]
    /\ UNCHANGED <<atVars, hostout, codecVars, pkVars, rxVars, linkVars, txVars>>

\* frames_from_xb_processor: insert, and the guard dropped at the end of the
\* statement
XbProc_insert ==
    /\ sync.reader = "insert"
    /\ sync' = [sync EXCEPT !.holder = "free", !.reader = "send"]
    /\ IF mode = "tap"
       THEN /\ tapdests' = tap_learn(tapdests, Header(rxret.data).source, rxret.addr64)
            /\ UNCHANGED tundests
       ELSE /\ tundests' = tun_learn(tundests, Header(rxret.data).source, rxret.addr64,
                                     now, opts.max_ip_cache)
            /\ UNCHANGED tapdests
    /\ UNCHANGED <<atVars, hostout, codecVars, pkVars, rxVars, linkVars, mode, opts, txq, prod,
                   counter, stdin, hostin, hostframe, now, wstate, wpending, wire, mainstate,
                   offered, deq>>

\* frames_from_xb_processor: the write to the device, and back to rxframe
XbProc_send ==
    /\ sync.reader = "send"
    /\ sync' = [sync EXCEPT !.reader = "rxframe"]
    /\ \E sent \in BOOLEAN :
          /\ hostout' = Append(hostout, Delivered(rxret, now, sent))
          /\ rfstatus' = IF mode = "tap" /\ ~sent THEN "panicked" ELSE rfstatus
    /\ UNCHANGED <<atVars, codecVars, pkVars, linkVars, txVars, serin, buf, rxret, rxlog,
                   rxcall, nradio>>

\* frames_from_tap_processor / frames_from_tun_processor: recv returns a frame;
\* the frame is parsed and what needs no lookup is settled
DevProc_recv(data) ==
    /\ mode \in {"tap", "tun"}
    /\ sync.sender = "recv"
    /\ hostin < MaxBridgeReads
    /\ hostin' = hostin + 1
    /\ hostframe' = data
    /\ sync' = IF ~Header(data).ok \/ DroppedByFamily(Header(data).destination)
               THEN sync
               ELSE IF opts.broadcast_everything
               THEN [sync EXCEPT !.sender = "send",
                                 !.got = [some |-> TRUE, mac |-> XB_BROADCAST]]
               ELSE [sync EXCEPT !.sender = "lock"]
    /\ UNCHANGED <<atVars, hostout, codecVars, pkVars, rxVars, linkVars, mode, opts, txq, prod,
                   counter, stdin, tapdests, tundests, now, wstate, wpending, wire, mainstate,
                   offered, deq>>

\* get_xb_dest_mac: self.dests.lock().unwrap() returns
DevProc_lock ==
    /\ sync.sender = "lock"
    /\ sync.holder = "free"
    /\ sync' = [sync EXCEPT !.holder = "sender", !.sender = "get"]
    /\ UNCHANGED <<atVars, hostout, codecVars, pkVars, rxVars, linkVars, txVars>>

\* get_xb_dest_mac: get and the arms of the match, at whose end the guard is
\* dropped
DevProc_get ==
    /\ sync.sender = "get"
    /\ LET d == IF mode = "tap"
                THEN tap_get_xb_dest_mac(opts, tapdests, Header(hostframe).destination)
                ELSE [some |-> TRUE,
                      mac |-> tun_get_xb_dest_mac(opts, tundests, now,
                                                  Header(hostframe).destination)]
       IN sync' = [sync EXCEPT !.holder = "free", !.got = d,
                               !.sender = IF d.some THEN "send" ELSE "recv"]
    /\ UNCHANGED <<atVars, hostout, codecVars, pkVars, rxVars, linkVars, txVars>>

\* sender.try_send of the frame to the address looked up
DevProc_try_send ==
    /\ sync.sender = "send"
    /\ sync' = [sync EXCEPT !.sender = "recv"]
    /\ Offer(TXData(sync.got.mac, hostframe), IF mode = "tap" THEN tap_send ELSE tun_send)
    /\ UNCHANGED <<atVars, hostout, codecVars, pkVars, rxVars, linkVars, mode, opts, counter,
                   stdin, hostin, hostframe, tapdests, tundests, now, wstate, wpending, wire,
                   mainstate, deq>>

\* both bridges without the address family switches
LockInit ==
    /\ BridgeInit
    /\ ~opts.disable_ipv4
    /\ ~opts.disable_ipv6

LockNext ==
    \/ \E s \in Senders, datagram \in TapRxDatagrams : mode = "tap" /\ BridgeRadioFrame(s, datagram)
    \/ \E rx \in TunRxDatagrams : mode = "tun" /\ BridgeRadioFrame(rx[1], rx[2])
    \/ XbProc_rxframe
    \/ XbProc_lock
    \/ XbProc_insert
    \/ XbProc_send
    \/ \E data \in TapFrames : mode = "tap" /\ DevProc_recv(data)
    \/ \E data \in TunPackets : mode = "tun" /\ DevProc_recv(data)
    \/ DevProc_lock
    \/ DevProc_get
    \/ DevProc_try_send

SpecLock == LockInit /\ [][LockNext]_vars

-----------------------------------------------------------------------------
(* Reframer specification: Receive Packets with any chunk header from two      *)
(* senders, in any interleaving, read by the thread in rxframe                 *)

RxBytes == {7, 9}

\* payloads of the Receive Packets: none at all, or a header byte and chunk data
RxPayloads ==
    {<<>>} \cup {<<h>> \o d : h \in 0..MaxHeader, d \in SeqsUpTo(RxBytes, 1)}

\* the radio received a packet and writes its 0x90 frame to the serial line
\* (the next frame follows once the reader has taken the previous one)
RadioFrame(s, payload) ==
    /\ nradio < MaxRadioFrames
    /\ serin = <<>>
    /\ serin' = rx_frame_bytes(s, SenderAddr16, 1, payload)
    /\ nradio' = nradio + 1
    /\ UNCHANGED <<atVars, hostout, sync, codecVars, pkVars, linkVars, txVars, buf, rxret, rxlog, rfstatus,
                   rxcall>>

ReframerInit ==
    /\ CodecIdle
    /\ PkIdle
    /\ RxIdle
    /\ LinkIdle
    /\ AtIdle
    /\ TxIdle

ReframerNext ==
    \/ \E s \in Senders, payload \in RxPayloads : RadioFrame(s, payload)
    \/ ReaderStep

SpecReframer == ReframerInit /\ [][ReframerNext]_vars

-----------------------------------------------------------------------------
(* Serial specification: the radio writes junk bytes and frames of several  *)
(* types to the serial line, back to back, while the reader thread takes     *)
(* them one rxxbpacket call at a time                                        *)

\* runs of junk and frames written to the serial line per run
MaxSerialItems == 3

\* an API frame around inner, as the radio writes it
xb_frame(inner) == <<126>> \o put_u16(Len(inner)) \o inner \o <<xbchecksum(inner)>>

\* bytes that are not a start delimiter
SerialJunk == {<<170>>, <<170, 187>>}

\* a 0x8B frame of one inner byte (7e 00 01 8b 74), a whole Extended TX
\* Status, a Modem Status (0x8A)
StatusFrames ==
    { xb_frame(<<139>>),
      xb_frame(<<139, 1, 255, 254, 0, 0, 0>>),
      xb_frame(<<138, 0>>) }

\* payloads of the Receive Packets: a last chunk and a chunk with more to come
SerialPayloads == {<<0, 7>>, <<1, 9>>}

GoodFrames == {rx_frame_bytes(s, SenderAddr16, 1, p) : s \in Senders, p \in SerialPayloads}

DamagedFrames == {rx_frame_damaged(s, SenderAddr16, 1, p) : s \in {AddrA}, p \in SerialPayloads}

\* the radio writes more bytes to the serial line
SerialFeed(bytes) ==
    /\ nradio < MaxSerialItems
    /\ serin' = serin \o bytes
    /\ nradio' = nradio + 1
    /\ UNCHANGED <<atVars, hostout, sync, codecVars, pkVars, linkVars, txVars, buf, rxret, rxlog, rfstatus,
                   rxcall>>

SerialInit == ReframerInit

SerialNext ==
    \/ \E bytes \in SerialJunk \cup StatusFrames \cup GoodFrames \cup DamagedFrames :
          SerialFeed(bytes)
    \/ ReaderStep

SpecSerial == SerialInit /\ [][SerialNext]_vars

-----------------------------------------------------------------------------
(* Link specification: remote senders packetize whole datagrams with           *)
(* packetize_data; each chunk travels as one radio frame, which may be lost    *)
(* on the air or reach the reader with a bad checksum                          *)

LinkDatagrams == SeqsUpTo(RxBytes, MaxLinkLen) \ {<<>>}

\* the payloads of the TX Requests a remote sender's packetizer makes of datagram d
RemoteChunks(d) ==
    LET r == packetize_data(PacketStreamNew, LinkPacketSize,
                            [kind |-> "U64", addr |-> XB_BROADCAST], d, FALSE, FALSE)
    IN [i \in 1..Len(r.packets) |-> r.packets[i].payload]

RemoteSend(s, d) ==
    /\ nsent < MaxSends
    /\ nsent' = nsent + 1
    /\ handed' = [handed EXCEPT ![s] = @ \cup {d}]
    /\ air' = [air EXCEPT ![s] = @ \o RemoteChunks(d)]
    /\ UNCHANGED <<atVars, hostout, sync, codecVars, pkVars, rxVars, txVars>>

\* a radio frame is lost
Lose(s) ==
    /\ air[s] # <<>>
    /\ air' = [air EXCEPT ![s] = Tail(@)]
    /\ UNCHANGED <<atVars, hostout, sync, codecVars, pkVars, rxVars, txVars, handed, nsent>>

\* a radio frame is received and its 0x90 frame written to the serial line
Arrive(s) ==
    /\ air[s] # <<>>
    /\ serin = <<>>
    /\ serin' = rx_frame_bytes(s, SenderAddr16, 1, Head(air[s]))
    /\ air' = [air EXCEPT ![s] = Tail(@)]
    /\ nradio' = nradio + 1
    /\ UNCHANGED <<atVars, hostout, sync, codecVars, pkVars, txVars, buf, rxret, rxlog,
                   rfstatus, rxcall, handed, nsent>>

\* a radio frame is received and reaches the reader with a bad checksum
ArriveDamaged(s) ==
    /\ air[s] # <<>>
    /\ serin = <<>>
    /\ serin' = rx_frame_damaged(s, SenderAddr16, 1, Head(air[s]))
    /\ air' = [air EXCEPT ![s] = Tail(@)]
    /\ nradio' = nradio + 1
    /\ UNCHANGED <<atVars, hostout, sync, codecVars, pkVars, txVars, buf, rxret, rxlog,
                   rfstatus, rxcall, handed, nsent>>

LinkInit ==
    /\ CodecIdle
    /\ PkIdle
    /\ RxIdle
    /\ LinkIdle
    /\ AtIdle
    /\ TxIdle

LinkNext ==
    \/ \E s \in Senders, d \in LinkDatagrams : RemoteSend(s, d)
    \/ \E s \in Senders : Lose(s)
    \/ \E s \in Senders : Arrive(s)
    \/ \E s \in Senders : ArriveDamaged(s)
    \/ ReaderStep

SpecLink == LinkInit /\ [][LinkNext]_vars

-----------------------------------------------------------------------------
(* Lossless link specification: as the link specification, but every radio     *)
(* frame reaches the reader intact and in the order it was sent; a sender may  *)
(* also hand its packetizer an empty datagram, which makes no chunks           *)

LosslessDatagrams == SeqsUpTo(RxBytes, MaxLinkLen)

LosslessNext ==
    \/ \E s \in Senders, d \in LosslessDatagrams : RemoteSend(s, d)
    \/ \E s \in Senders : Arrive(s)
    \/ ReaderStep

SpecLossless == LinkInit /\ [][LosslessNext]_vars

-----------------------------------------------------------------------------
(* Codec specification: serialize applied to every request of the bounds *)

ShortRequests ==
    [frame_id : {0, 1, 255},
     dest_addr : XBDestAddrs,
     broadcast_radius : {0},
     transmit_options : {0, 1},
     payload : SeqsUpTo(PayloadBytes, MaxPayloadLen)]

\* payload lengths on either side of the largest inner frame the 16-bit length
\* field can describe: 14 + 65521 = 65535, 14 + 65522 = 65536; and 65530
EdgeLens == {65521, 65522, 65530}

EdgeRequests ==
    {[frame_id |-> 0, dest_addr |-> d, broadcast_radius |-> 0, transmit_options |-> 0,
      payload |-> LongData(n)] :
        d \in {[kind |-> "U64", addr |-> XB_BROADCAST], [kind |-> "U16", addr |-> 65534]},
        n \in EdgeLens}

TXRequests == ShortRequests \cup EdgeRequests

CodecInit ==
    /\ txreq \in TXRequests
    /\ txout = NoOut
    /\ macs = NoMacs
    /\ PkIdle
    /\ RxIdle
    /\ LinkIdle
    /\ AtIdle
    /\ TxIdle

SerializeXbpacket ==
    /\ txout.path = "none"
    /\ txout' = [path |-> "xbpacket"] @@ serialize(txreq)
    /\ UNCHANGED <<atVars, hostout, sync, txreq, macs, pkVars, rxVars, linkVars, txVars>>

SerializeTxpacket ==
    /\ txout.path = "none"
    /\ txout' = [path |-> "txpacket"] @@ serialize_txpacket(txreq)
    /\ UNCHANGED <<atVars, hostout, sync, txreq, macs, pkVars, rxVars, linkVars, txVars>>

CodecNext == SerializeXbpacket \/ SerializeTxpacket

SpecCodec == CodecInit /\ [][CodecNext]_vars

-----------------------------------------------------------------------------
(* Address conversion specification: mac64to48 and mac48to64 called in turn  *)

\* the top 16 bits and the low 48 bits of the radio addresses converted
MacTops == {<<0, 19>>, <<0, 0>>, <<255, 255>>, <<18, 52>>}
MacLows == {<<162, 0, 64, 18, 52, 86>>, <<86, 120, 154, 188, 222, 255>>,
            <<255, 255, 255, 255, 255, 255>>, <<0, 0, 0, 0, 0, 0>>}
Mac64s == {t \o l : t \in MacTops, l \in MacLows}

MacInit ==
    /\ CodecIdle
    /\ PkIdle
    /\ RxIdle
    /\ LinkIdle
    /\ AtIdle
    /\ TxIdle

\* mac64to48(mac64)
CallMac64to48 ==
    /\ macs.calls = 0
    /\ \E mac64 \in Mac64s :
          macs' = [macs EXCEPT !.mac64 = mac64, !.mac48 = mac64to48(mac64), !.calls = 1]
    /\ UNCHANGED <<atVars, hostout, sync, txreq, txout, pkVars, rxVars, linkVars, txVars>>

\* mac48to64(&mac48, pattern64) on the MAC the first call returned
CallMac48to64 ==
    /\ macs.calls = 1
    /\ \E pattern64 \in Mac64s :
          macs' = [macs EXCEPT !.pattern64 = pattern64,
                               !.back = mac48to64(macs.mac48, pattern64), !.calls = 2]
    /\ UNCHANGED <<atVars, hostout, sync, txreq, txout, pkVars, rxVars, linkVars, txVars>>

MacNext == CallMac64to48 \/ CallMac48to64

SpecMac == MacInit /\ [][MacNext]_vars

-----------------------------------------------------------------------------
(* Loopback specification: the bytes serialize returns are handed to the     *)
(* parser, rxxbpacket                                                        *)

\* the frame of the last successful serialize call is put where rxxbpacket reads
Loopback ==
    /\ txout.path = "xbpacket"
    /\ txout.ok
    /\ nradio = 0
    /\ serin' = txout.bytes
    /\ nradio' = 1
    /\ UNCHANGED <<atVars, hostout, sync, codecVars, pkVars, linkVars, txVars, buf, rxret, rxlog,
                   rfstatus, rxcall>>

LoopbackNext == SerializeXbpacket \/ Loopback \/ ReaderStep

SpecLoopback == CodecInit /\ [][LoopbackNext]_vars

-----------------------------------------------------------------------------
(* Claims about the codec *)

\* the bytes of a frame between its 2-byte length field and its checksum byte
InnerOf(f) == SubSeq(f, 4, Len(f) - 1)

\* C1: every frame serialize returns passes the checksum equation: its last
\* byte is 0xFF minus the sum of the inner bytes mod 256, i.e. the inner bytes
\* and the checksum byte add up to 0xFF mod 256.
C1_ChecksumEquation ==
    txout.ok =>
        /\ Len(txout.bytes) >= 4
        /\ txout.bytes[Len(txout.bytes)] \in 0..255
        /\ (SeqSum(InnerOf(txout.bytes)) + txout.bytes[Len(txout.bytes)]) % 256 = 255

\* a frame was emitted whose inner bytes sum to more than one byte
C1_Witness ==
    /\ txout.ok
    /\ SeqSum(InnerOf(txout.bytes)) > 255

\* C2: on every source path the 16-bit big-endian length field is the length
\* of the inner frame, 14 header bytes plus the payload.
C2_LengthIsInnerLen ==
    txout.ok =>
        /\ txout.bytes[2] * 256 + txout.bytes[3] = 14 + Len(txreq.payload)
        /\ txout.bytes[2] * 256 + txout.bytes[3] = Len(txout.bytes) - 4

\* C2 on the xbpacket.rs path alone
C2_LengthIsInnerLen_xbpacket ==
    (txout.ok /\ txout.path = "xbpacket") =>
        /\ txout.bytes[2] * 256 + txout.bytes[3] = 14 + Len(txreq.payload)
        /\ txout.bytes[2] * 256 + txout.bytes[3] = Len(txout.bytes) - 4

-----------------------------------------------------------------------------
(* Claims about the packetizer *)

\* payload[1..] of packets lo..hi of ps, concatenated
RECURSIVE ConcatTails(_, _, _)
ConcatTails(ps, lo, hi) ==
    IF lo > hi THEN <<>>
    ELSE IF lo = hi THEN Tail(ps[lo].payload)
    ELSE ConcatTails(ps, lo, (lo + hi) \div 2) \o ConcatTails(ps, (lo + hi) \div 2 + 1, hi)

PkSucceeded == pkout.status = "ok" /\ pkin.maxpacketsize >= 2 /\ pkin.data # <<>>

\* C3: for M >= 2 and a non-empty payload P on which packetize_data succeeds,
\* the chunks' payloads from index 1 onward concatenate to P, every chunk carries
\* at most M-1 data bytes, and there are ceil(|P| / (M-1)) <= 255 chunks.
C3_ChunksPartitionPayload ==
    PkSucceeded =>
        /\ ConcatTails(pkout.packets, 1, Len(pkout.packets)) = pkin.data
        /\ \A i \in 1..Len(pkout.packets) :
               /\ Len(pkout.packets[i].payload) >= 1
               /\ Len(pkout.packets[i].payload) - 1 <= pkin.maxpacketsize - 1
        /\ Len(pkout.packets) = CeilDiv(Len(pkin.data), pkin.maxpacketsize - 1)
        /\ Len(pkout.packets) <= 255

\* a datagram split into 255 chunks, and one split with a short last chunk
C3_Witness ==
    /\ PkSucceeded
    /\ Len(pkout.packets) = 255

\* C4: chunk i of N (i from 0) carries header byte N-i-1: zero on the last
\* chunk and on no other, greater than zero on every non-last chunk.
C4_HeaderCountsDown ==
    pkout.status = "ok" =>
        \A i \in 1..Len(pkout.packets) :
            /\ pkout.packets[i].payload[1] = Len(pkout.packets) - i
            /\ (pkout.packets[i].payload[1] = 0) <=> (i = Len(pkout.packets))
            /\ (i < Len(pkout.packets)) => pkout.packets[i].payload[1] > 0

\* a sequence of at least three chunks was produced
C4_Witness ==
    /\ pkout.status = "ok"
    /\ Len(pkout.packets) >= 3

-----------------------------------------------------------------------------
(* Claims about the reframer *)

\* indices of the packets of sender s in log
IdxOf(log, s) == {i \in 1..Len(log) : log[i].sender_addr64 = s}

\* payload[1..] of the packets of sender s among log[lo..hi], concatenated in order
RECURSIVE TailsOf(_, _, _, _)
TailsOf(log, s, lo, hi) ==
    IF lo > hi THEN <<>>
    ELSE (IF log[lo].sender_addr64 = s THEN Tail(log[lo].payload) ELSE <<>>)
             \o TailsOf(log, s, lo + 1, hi)

\* index of the last terminal packet of s before index k, 0 when there is none
PrevTerminal(log, s, k) ==
    IF \E i \in IdxOf(log, s) : i < k /\ log[i].payload[1] = 0
    THEN CHOOSE i \in IdxOf(log, s) :
            /\ i < k /\ log[i].payload[1] = 0
            /\ \A j \in IdxOf(log, s) : (j < k /\ log[j].payload[1] = 0) => j <= i
    ELSE 0

\* what the packets of s up to index k amount to since s's previous terminal packet
SinceTerminal(log, s, k) == TailsOf(log, s, PrevTerminal(log, s, k) + 1, k)

\* the entry of sender s in map m, or "absent"
EntryOf(m, s) == IF s \in DOMAIN m THEN m[s] ELSE "absent"

C5_ReturnIsOwnChunks ==
    rxret.valid =>
        /\ rxlog # <<>>
        /\ rxlog[Len(rxlog)].sender_addr64 = rxret.addr64
        /\ rxret.data = SinceTerminal(rxlog, rxret.addr64, Len(rxlog))

C5_OtherBuffersUntouched ==
    \A s \in Senders :
        (Len(rxlog') = Len(rxlog) + 1 /\ rxlog'[Len(rxlog')].sender_addr64 # s)
            => EntryOf(buf', s) = EntryOf(buf, s)

\* C5: under any interleaving of Receive Packets from distinct senders, a
\* datagram returned for sender S is the concatenation, in arrival order, of
\* payload[1..] of S's packets only (those since S's previous terminal packet),
\* and processing a packet from S leaves every other sender's buffer unchanged.
C5_PerSenderReassembly ==
    [](C5_ReturnIsOwnChunks) /\ [][C5_OtherBuffersUntouched]_vars

\* a datagram of two chunks came back although a packet of the other sender,
\* which has a buffer of its own, arrived between the two
C5_Witness ==
    /\ rxret.valid
    /\ Len(rxlog) = 3
    /\ rxlog[1].sender_addr64 = rxret.addr64
    /\ rxlog[1].payload[1] # 0
    /\ rxlog[2].sender_addr64 # rxret.addr64
    /\ rxlog[2].payload[1] # 0
    /\ Len(rxlog[1].payload) > 1
    /\ Len(rxlog[2].payload) > 1
    /\ rxlog[2].sender_addr64 \in DOMAIN buf

\* C6: when rxframe returns a datagram for S the map holds no entry for S, and
\* an entry for S exists exactly between a non-terminal chunk from S and S's
\* next terminal chunk (S's latest packet is a non-terminal one).
C6_BufferLifetime ==
    /\ rxret.valid => rxret.addr64 \notin DOMAIN buf
    /\ DOMAIN buf \subseteq Senders
    /\ \A s \in Senders :
          (s \in DOMAIN buf) <=>
              /\ IdxOf(rxlog, s) # {}
              /\ \E i \in IdxOf(rxlog, s) :
                    /\ \A j \in IdxOf(rxlog, s) : j <= i
                    /\ rxlog[i].payload[1] # 0

\* a datagram was returned for a sender that had a buffer just before
C6_Witness ==
    /\ rxret.valid
    /\ Len(rxlog) >= 2
    /\ rxlog[Len(rxlog) - 1].sender_addr64 = rxret.addr64
    /\ rxlog[Len(rxlog) - 1].payload[1] # 0

-----------------------------------------------------------------------------
(* Claims about the radio link *)

\* C7: a datagram is delivered in its entirety or not at all: every datagram
\* rxframe returns equals a datagram its sender handed whole to the packetizer,
\* also when frames of a multi-chunk datagram are lost or discarded.
C7_WholeOrNothing ==
    rxret.valid => rxret.data \in handed[rxret.addr64]

-----------------------------------------------------------------------------
(* Transmit queue and writer thread *)

\* the items that went into the queue, oldest first
Enqueued == deq \o txq

C8_HostReaderDropsOnFull ==
    (mode \in {"tap", "tun"} /\ Len(offered') = Len(offered) + 1 /\ Len(txq) = TxCapacity)
        => (txq' = txq /\ deq' = deq /\ prod'.state = "running")

\* ping, pong and the pipe stdin side lose nothing: what they handed to send is
\* in the queue, taken by the writer, or held by the send that waits for room
C8_BlockingSendKeepsAll ==
    mode \in {"ping", "pong", "pipe"} =>
        offered = Enqueued \o (IF prod.state = "blocked" THEN <<prod.item>> ELSE <<>>)

WireDest(f) == SubSeq(f, 6, 13)
WireHdr(f) == f[18]
WireData(f) == SubSeq(f, 19, Len(f) - 1)

\* the chunk data of frames lo..hi of the wire, concatenated
RECURSIVE WireConcat(_, _, _)
WireConcat(w, lo, hi) ==
    IF lo > hi THEN <<>>
    ELSE IF lo = hi THEN WireData(w[lo])
    ELSE WireConcat(w, lo, (lo + hi) \div 2) \o WireConcat(w, ((lo + hi) \div 2) + 1, hi)

\* positions of the frames that end a datagram
Terminals(w) == {i \in 1..Len(w) : WireHdr(w[i]) = 0}

NthTerminal(w, k) ==
    IF k = 0 THEN 0
    ELSE CHOOSE i \in Terminals(w) : Cardinality({j \in Terminals(w) : j <= i}) = k

\* what a receiver that concatenates chunks up to each terminal one reads off the wire
WireDatagrams(w) ==
    [k \in 1..Cardinality(Terminals(w)) |->
        [dest |-> WireDest(w[NthTerminal(w, k)]),
         data |-> WireConcat(w, NthTerminal(w, k - 1) + 1, NthTerminal(w, k))]]

IsTXData(item) == item.kind = "TXData"

DatagramsOf(items) ==
    [k \in 1..Len(SelectSeq(items, IsTXData)) |->
        [dest |-> SelectSeq(items, IsTXData)[k].dest.addr,
         data |-> SelectSeq(items, IsTXData)[k].data]]

IsPrefix(s, t) == Len(s) <= Len(t) /\ SubSeq(t, 1, Len(s)) = s

RECURSIVE ConcatData(_)
ConcatData(items) ==
    IF items = <<>> THEN <<>> ELSE Head(items).data \o ConcatData(Tail(items))

\* standard input has reached end-of-file: the last thing handed to send is Shutdown
PipeEOF == mode = "pipe" /\ offered # <<>> /\ offered[Len(offered)].kind = "Shutdown"

\* Shutdown comes after every block read, and the blocks are standard input
C9_ShutdownLast ==
    PipeEOF =>
        /\ \A i \in 1..(Len(offered) - 1) : offered[i].kind = "TXData"
        /\ ConcatData(offered) = StdinBytes(Len(ConcatData(offered)))
        /\ stdin = <<>>
        /\ offered = Enqueued \o (IF prod.state = "blocked" THEN <<prod.item>> ELSE <<>>)

\* the writer has written every block and ended on Shutdown, and main has returned
C9_Drained ==
    /\ mainstate = "exited"
    /\ wstate = "exited"
    /\ deq = offered
    /\ txq = <<>>
    /\ WireDatagrams(wire) = DatagramsOf(offered)

\* C9: in pipe mode, once standard input reaches end-of-file, Shutdown is
\* enqueued after every data item read before it; the writer eventually writes
\* all those items to the serial port, takes Shutdown and ends, and main's join
\* returns, so that the process exits with status 0.
C9_PipeShutdown ==
    /\ [](C9_ShutdownLast)
    /\ PipeEOF ~> C9_Drained

\* the pipe has shut down after standard input was read in one-byte blocks, all
\* of them written (with Shutdown, more items than the queue holds at a time)
C9_Witness ==
    /\ C9_Drained
    /\ mode = "pipe"
    /\ Len(wire) = MaxStdinLen

\* C10: the writer serializes the queue items to the serial port in dequeue
\* order, and the frames of one datagram's chunks are contiguous on the wire in
\* descending remaining-chunks order: a chunk with n > 0 chunks remaining is
\* followed by the chunk with n - 1 remaining of the same datagram, and what
\* the wire carries is the dequeued datagrams, whole, in the order of dequeue.
C10_WireInDequeueOrder ==
    /\ \A i \in 1..(Len(wire) - 1) :
          WireHdr(wire[i]) > 0 =>
              /\ WireHdr(wire[i + 1]) = WireHdr(wire[i]) - 1
              /\ WireDest(wire[i + 1]) = WireDest(wire[i])
    /\ WireDatagrams(wire) =
          (IF wstate = "writing"
           THEN SubSeq(DatagramsOf(deq), 1, Len(DatagramsOf(deq)) - 1)
           ELSE DatagramsOf(deq))
    /\ wstate = "writing" =>
          /\ DatagramsOf(deq) # <<>>
          /\ IsPrefix(WireConcat(wire, NthTerminal(wire, Cardinality(Terminals(wire))) + 1,
                                 Len(wire)),
                      DatagramsOf(deq)[Len(DatagramsOf(deq))].data)

\* the writer is in the middle of a datagram of several chunks, after another
\* one, while further datagrams wait in the queue
C10_Witness ==
    /\ wstate = "writing"
    /\ txq # <<>>
    /\ wire # <<>>
    /\ WireHdr(wire[Len(wire)]) > 0
    /\ Cardinality(Terminals(wire)) >= 1

-----------------------------------------------------------------------------
(* Writer thread: items that fail *)

\* a datagram the packetizer turns into frames: not empty, and at most 255 chunks
Sendable(item) ==
    /\ item.kind = "TXData"
    /\ item.data # <<>>
    /\ CeilDiv(Len(item.data), opts.maxpacketsize - 1) <= 255

\* the dequeued datagrams that can be sent, as the receiver sees them
SendableOf(items) ==
    [k \in 1..Len(SelectSeq(items, Sendable)) |->
        [dest |-> SelectSeq(items, Sendable)[k].dest.addr,
         data |-> SelectSeq(items, Sendable)[k].data]]

\* the writer takes an item that cannot be sent: nothing is written for it, and
\* the writer is back in recv
C11_FailedItemWritesNothing ==
    (Len(deq') = Len(deq) + 1 /\ ~Sendable(deq'[Len(deq')]))
        => (wire' = wire /\ wpending' = <<>> /\ wstate' = "recv")

\* the wire carries the sendable datagrams that were dequeued, whole and in
\* order, whatever failed items were dequeued between them
C11_OthersStillWritten ==
    /\ wstate \in {"recv", "writing"}
    /\ WireDatagrams(wire) =
          (IF wstate = "writing"
           THEN SubSeq(SendableOf(deq), 1, Len(SendableOf(deq)) - 1)
           ELSE SendableOf(deq))

-----------------------------------------------------------------------------
(* Who writes to the serial port *)

\* a step that puts bytes on the serial port is a step of the writer thread, in
\* the middle of an item: it writes the next TX Request of that item and
\* touches nothing that belongs to a driver thread
C12_WriteIsWriterStep ==
    (wire' # wire) =>
        /\ wstate = "writing"
        /\ wpending # <<>>
        /\ wire' = Append(wire, serialize(Head(wpending)).bytes)
        /\ wpending' = Tail(wpending)
        /\ UNCHANGED <<prod, offered, counter, stdin, hostin, hostframe, serin, buf, rxret, rxlog,
                       tapdests, tundests, txq>>

\* C12: after the startup sequence, every write to the serial port is made by
\* the controller's writer task; no driver thread (ping, pong, pipe, TAP, TUN
\* reader or sender) ever writes to the serial port directly.
C12_OnlyWriterWrites == [][C12_WriteIsWriterStep]_vars

\* frames are on the wire while the TUN reader has more datagrams queued
C12_Witness ==
    /\ mode = "tun"
    /\ Len(wire) >= 2
    /\ txq # <<>>
    /\ hostin >= 2

-----------------------------------------------------------------------------
(* Startup *)

\* C13 as stated: during startup an unexpected response (a reply other than OK
\* to +++, ATAP 1, ATAO 0 or ATCN) aborts initialization: no later command is
\* written, and the controller never becomes operational.
C13_UnexpectedResponseAborts ==
    \A k \in AssertedReads :
        (k <= Len(atin) /\ atin[k] # OK) =>
            /\ Len(atout) <= k
            /\ atstate.status # "operational"

ends_with(s, p) == Len(s) >= Len(p) /\ SubSeq(s, Len(s) - Len(p) + 1, Len(s)) = p

\* C14 as stated: after +++, startup moves on to its next command only once a
\* line ending in OK has been read; lines not ending in OK are read over.
C14_NextStepOnlyAfterOK ==
    Len(atout) >= 2 =>
        /\ atout[2].lines >= 1
        /\ ends_with(atin[atout[2].lines], OK)

-----------------------------------------------------------------------------
(* TAP bridge: learning and destination selection *)

\* the datagrams written to the tap device that carry an Ethernet header with
\* source MAC m, as positions of hostout
HeardFrom(m) ==
    {k \in 1..Len(hostout) :
        from_ethernet(hostout[k].data).ok /\ from_ethernet(hostout[k].data).source = m}

Latest(S) == CHOOSE k \in S : \A j \in S : j <= k

\* the step reads a frame with an Ethernet header from the tap device
TapReadStep ==
    mode = "tap" /\ hostin' = hostin + 1 /\ from_ethernet(hostframe').ok

TapItem(addr) == TXData(addr, hostframe')

\* the step offers item to the transmit queue, which takes it unless it is full
Enqueues(item) ==
    /\ offered' = Append(offered, item)
    /\ txq' = IF Len(txq) < TxCapacity THEN Append(txq, item) ELSE txq

\* the step offers nothing to the transmit queue
EnqueuesNothing == offered' = offered /\ txq' = txq

C15_RoutesToLatestSender ==
    (/\ TapReadStep
     /\ ~opts.broadcast_everything
     /\ HeardFrom(from_ethernet(hostframe').destination) # {})
        => Enqueues(TapItem(
              hostout[Latest(HeardFrom(from_ethernet(hostframe').destination))].from))

\* C15: in the TAP bridge with broadcast_everything false, after a datagram
\* with well-formed Ethernet source MAC M is received from radio address R,
\* every later frame read from the tap device with destination MAC M is
\* enqueued for R, until a later receive with source M from another radio
\* address replaces the mapping: the frame goes to the radio address of the
\* latest receive with source M.
C15_TapLearning == [][C15_RoutesToLatestSender]_vars

\* M was heard from AddrA and then from AddrB, and the frame read from the tap
\* device for M is queued for AddrB
C15_Witness ==
    /\ mode = "tap"
    /\ ~opts.broadcast_everything
    /\ Len(hostout) = 2
    /\ hostout[1].from = AddrA
    /\ hostout[2].from = AddrB
    /\ HeardFrom(mac64to48(AddrA)) = {1, 2}
    /\ from_ethernet(hostframe).ok
    /\ from_ethernet(hostframe).destination = mac64to48(AddrA)
    /\ txq # <<>>
    /\ txq[Len(txq)] = TXData(AddrB, hostframe)

\* the destination MAC of the frame read in this step
TapDestination == from_ethernet(hostframe').destination

C16_TableStep ==
    TapReadStep =>
        IF opts.broadcast_everything
        THEN Enqueues(TapItem(XB_BROADCAST))
        ELSE IF TapDestination \in DOMAIN tapdests
        THEN Enqueues(TapItem(tapdests[TapDestination]))
        ELSE IF opts.broadcast_unknown
        THEN Enqueues(TapItem(XB_BROADCAST))
        ELSE EnqueuesNothing

\* whatever the tap bridge offers to the queue is one item that carries the
\* whole frame just read
C16_PayloadStep ==
    (mode = "tap" /\ offered' # offered) =>
        /\ Len(offered') = Len(offered) + 1
        /\ offered'[Len(offered')].kind = "TXData"
        /\ offered'[Len(offered')].data = hostframe'

\* C16: TAP destination selection follows exactly this table:
\* broadcast_everything gives 0xFFFF regardless of the cache; otherwise a cache
\* hit gives the mapped radio address; otherwise broadcast_unknown gives
\* 0xFFFF; otherwise the frame is dropped and nothing is enqueued. Whenever a
\* frame is enqueued, its payload is the entire unmodified raw Ethernet frame.
C16_TapDestinationTable == [][C16_TableStep /\ C16_PayloadStep]_vars

\* without either broadcast option two frames with an Ethernet header were
\* read: the one read before the peer was heard was dropped, the one read
\* after is queued for the mapped radio address
C16_Witness ==
    /\ mode = "tap"
    /\ ~opts.broadcast_everything
    /\ ~opts.broadcast_unknown
    /\ hostin = 2
    /\ from_ethernet(hostframe).ok
    /\ from_ethernet(hostframe).destination = mac64to48(AddrA)
    /\ mac64to48(AddrA) \in DOMAIN tapdests
    /\ offered = <<TXData(tapdests[mac64to48(AddrA)], hostframe)>>
    /\ txq = offered

\* C17 as stated: in every reachable state of the TAP bridge the Ethernet
\* broadcast MAC ff:ff:ff:ff:ff:ff maps to the broadcast radio address 0xFFFF,
\* whatever frames have been received from the radio.
C17_BroadcastMacMapsToBroadcast ==
    mode = "tap" =>
        /\ ETHER_BROADCAST \in DOMAIN tapdests
        /\ tapdests[ETHER_BROADCAST] = XB_BROADCAST

-----------------------------------------------------------------------------
(* TUN bridge: learning with expiry, destination selection, disabled families *)

\* the datagrams written to the tun device that carry an IP header with source
\* address ip, as positions of hostout
HeardFromIp(ip) ==
    {k \in 1..Len(hostout) :
        from_ip(hostout[k].data).ok /\ from_ip(hostout[k].data).source = ip}

\* the step reads a datagram with an IP header from the tun device
TunReadStep ==
    mode = "tun" /\ hostin' = hostin + 1 /\ from_ip(hostframe').ok

\* the destination address of the datagram read in this step
TunDestination == from_ip(hostframe').destination

TunItem(addr) == TXData(addr, hostframe')

\* the latest receive from the destination of the datagram read in this step
LatestHeard == hostout[Latest(HeardFromIp(TunDestination))]

C18_RoutesUntilExpiry ==
    (/\ TunReadStep
     /\ ~opts.broadcast_everything
     /\ HeardFromIp(TunDestination) # {})
        => IF now < LatestHeard.at + opts.max_ip_cache
           THEN Enqueues(TunItem(LatestHeard.from))
           ELSE Enqueues(TunItem(XB_BROADCAST))

\* C18: in the TUN bridge with broadcast_everything false, after a datagram
\* with IP source I is received from radio address R at time t0, a transmit to
\* I at time t routes to R when t < t0 + max_ip_cache and to 0xFFFF when
\* t >= t0 + max_ip_cache, where t0 and R are those of the latest receive
\* from I (a later receive refreshes the entry).
C18_TunCacheExpiry == [][C18_RoutesUntilExpiry]_vars

\* the peer was heard once, at time 0 from AddrA: the datagram for it read at
\* time 0 is queued for AddrA, the one read when max_ip_cache has elapsed is
\* queued for the broadcast address
C18_Witness ==
    /\ mode = "tun"
    /\ ~opts.broadcast_everything
    /\ Len(hostout) = 1
    /\ hostout[1].from = AddrA
    /\ hostout[1].at = 0
    /\ from_ip(hostframe).ok
    /\ HeardFromIp(from_ip(hostframe).destination) = {1}
    /\ now = opts.max_ip_cache
    /\ offered = <<TXData(AddrA, hostframe), TXData(XB_BROADCAST, hostframe)>>
    /\ txq = offered

\* the address family of ip is not switched off
FamilyEnabled(ip) ==
    \/ ip.v = 4 /\ ~opts.disable_ipv4
    \/ ip.v = 6 /\ ~opts.disable_ipv6

C19_TableStep ==
    (TunReadStep /\ FamilyEnabled(TunDestination)) =>
        IF opts.broadcast_everything
        THEN Enqueues(TunItem(XB_BROADCAST))
        ELSE IF TunDestination \notin DOMAIN tundests
        THEN Enqueues(TunItem(XB_BROADCAST))
        ELSE IF now >= tundests[TunDestination].expiration
        THEN Enqueues(TunItem(XB_BROADCAST))
        ELSE Enqueues(TunItem(tundests[TunDestination].dest))

\* C19: a well-formed IP datagram read from the TUN device whose address
\* family is enabled is never dropped for lack of a route: with
\* broadcast_everything, on a cache miss, or on an expired entry it is enqueued
\* to 0xFFFF, and on an unexpired hit to the mapped radio address; the payload
\* enqueued is the unmodified raw IP datagram.
C19_TunNeverDroppedForRoute == [][C19_TableStep]_vars

\* the IPv4 peer was heard from AddrB; the datagram for it read before the
\* entry expired is queued for AddrB, and the IPv6 datagram, for an address
\* that is not in the map, is queued for the broadcast address
C19_Witness ==
    /\ mode = "tun"
    /\ ~opts.broadcast_everything
    /\ DOMAIN tundests = {IpV4(Ip4Peer)}
    /\ tundests[IpV4(Ip4Peer)].dest = AddrB
    /\ hostin = 2
    /\ offered = <<TXData(AddrB, Ipv4Packet(Ip4Local, Ip4Peer, <<>>)),
                   TXData(XB_BROADCAST, Ipv6Packet(Ip6Local, Ip6Peer, <<>>))>>
    /\ txq = offered

\* data is an IP datagram of a family that is switched off
OfDisabledFamily(data) ==
    /\ from_ip(data).ok
    /\ ~FamilyEnabled(from_ip(data).source)

\* a datagram of a disabled family read from the tun device is not offered to
\* the transmit queue
C20_FromTunStep ==
    (TunReadStep /\ ~FamilyEnabled(TunDestination)) => EnqueuesNothing

\* a datagram of a disabled family that rxframe returns changes neither the
\* map nor what has been written to the tun device
C20_FromRadioStep ==
    (/\ mode = "tun"
     /\ rxlog' # rxlog
     /\ rxret'.valid
     /\ OfDisabledFamily(rxret'.data))
        => (tundests' = tundests /\ hostout' = hostout)

\* nothing of a disabled family is in the queue, in the map or among the
\* datagrams written to the tun device
C20_NoTrace ==
    mode = "tun" =>
        /\ \A k \in 1..Len(offered) : ~OfDisabledFamily(offered[k].data)
        /\ \A k \in 1..Len(txq) : ~OfDisabledFamily(txq[k].data)
        /\ \A ip \in DOMAIN tundests : FamilyEnabled(ip)
        /\ \A k \in 1..Len(hostout) : ~OfDisabledFamily(hostout[k].data)

\* C20: in the TUN bridge a datagram of a disabled address family is dropped
\* in both directions: from the TUN device it is never enqueued for
\* transmission, and from the radio it is neither recorded in the IP cache nor
\* written to the TUN device.
C20_DisabledFamilyDropped ==
    /\ [][C20_FromTunStep /\ C20_FromRadioStep]_vars
    /\ [](C20_NoTrace)

\* with IPv4 switched off and IPv6 not, datagrams of both families were read
\* from the tun device and received from the radio, the IPv4 ones last: only
\* the IPv6 ones are in the queue, in the map and written to the tun device
C20_Witness ==
    /\ mode = "tun"
    /\ opts.disable_ipv4
    /\ ~opts.disable_ipv6
    /\ ~opts.broadcast_everything
    /\ hostin = 2
    /\ hostframe = Ipv4Packet(Ip4Local, Ip4Peer, <<>>)
    /\ Len(offered) = 1
    /\ offered[1].data = Ipv6Packet(Ip6Local, Ip6Peer, <<>>)
    /\ Len(rxlog) = 2
    /\ rxret.valid
    /\ rxret.data = Ipv4Packet(Ip4Peer, Ip4Local, <<>>)
    /\ Len(hostout) = 1
    /\ hostout[1].data = Ipv6Packet(Ip6Peer, Ip6Local, <<>>)
    /\ DOMAIN tundests = {IpV6(Ip6Peer)}

-----------------------------------------------------------------------------
(* Both bridges: what the address cache holds *)

\* the entry for Ethernet MAC m is the sender of the latest receive with
\* source m
TapEntryIsLatest(m) ==
    /\ HeardFrom(m) # {}
    /\ tapdests[m] = hostout[Latest(HeardFrom(m))].from

\* the entry for IP address ip is the sender of the latest receive with source
\* ip, with the expiration counted from that receive
TunEntryIsLatest(ip) ==
    /\ HeardFromIp(ip) # {}
    /\ tundests[ip].dest = hostout[Latest(HeardFromIp(ip))].from
    /\ tundests[ip].expiration = hostout[Latest(HeardFromIp(ip))].at + opts.max_ip_cache

\* the entry for m is the one new_tap puts into the map
IsTapSeed(m) == m = ETHER_BROADCAST /\ tapdests[m] = XB_BROADCAST

-----------------------------------------------------------------------------
(* Reader: junk, frames that are not Receive Packets, bad checksums *)

\* the step is one call of rxxbpacket by the reader thread
RxCallStep == rfstatus = "running" /\ Len(serin') < Len(serin)

\* aa bb 7e 00 01 8b 74
JunkSkipInput == <<170, 187, 126, 0, 1, 139, 116>>

\* the call returned None: nothing reaches the reframer, the reader lives
ReturnsNone ==
    /\ rfstatus' = "running"
    /\ rxret' = NoReturn
    /\ rxlog' = rxlog
    /\ buf' = buf

\* the call returned the Receive Packet of sender s with payload p
ReturnsPacket(s, p) ==
    /\ rfstatus' = "running"
    /\ rxlog' = Append(rxlog, [sender_addr64 |-> s, sender_addr16 |-> SenderAddr16,
                               rx_options |-> 1, payload |-> p])

\* a call that finds a valid 0x90 frame at the head of the line returns it and
\* leaves what follows the frame
GoodFrameReturned ==
    \A s \in Senders, p \in SerialPayloads :
        (RxCallStep /\ starts_with(serin, rx_frame_bytes(s, SenderAddr16, 1, p)))
            => /\ ReturnsPacket(s, p)
               /\ serin = rx_frame_bytes(s, SenderAddr16, 1, p) \o serin'

\* C22 as stated: fed the bytes aa bb 7e 00 01 8b 74 followed by a valid 0x90
\* frame, the reader skips the two junk bytes, discards the 0x8B frame
\* (returning None for it without aborting), and the blocking variant then
\* returns the 0x90 frame.
C22_JunkSkip ==
    [][/\ (RxCallStep /\ starts_with(serin, JunkSkipInput))
              => (ReturnsNone /\ serin = JunkSkipInput \o serin')
       /\ GoodFrameReturned]_vars

\* a call that finds a 0x90 frame with a wrong checksum byte at the head of the
\* line logs the mismatch, returns None and leaves what follows the frame
C23_DamagedFrameDiscarded ==
    \A f \in DamagedFrames :
        (RxCallStep /\ starts_with(serin, f))
            => /\ ReturnsNone
               /\ rxcall' = ChecksumMismatch
               /\ serin = f \o serin'

\* C23: a 0x90 frame whose checksum byte does not match its inner bytes is
\* discarded (rxxbpacket returns None and the reframer state is unchanged),
\* reading resumes at the byte after that frame's checksum byte, and the next
\* good 0x90 frame is returned by rxxbpacket_wait.
C23_BadChecksumSkipped == [][C23_DamagedFrameDiscarded /\ GoodFrameReturned]_vars

\* the last call met a checksum mismatch; the reader is alive, nothing reached
\* the reframer, and a good frame written behind the damaged one is what is
\* left on the line
C23_Witness ==
    /\ rxcall = ChecksumMismatch
    /\ rfstatus = "running"
    /\ rxlog = <<>>
    /\ buf = EmptyMap
    /\ nradio = 2
    /\ serin = rx_frame_bytes(AddrB, SenderAddr16, 1, <<0, 7>>)

-----------------------------------------------------------------------------
(* serialize: when it fails *)

\* C24: serialize fails with InvalidLen exactly when the payload is empty or
\* the inner frame length (14 + payload length) is 65536 or more, and in that
\* case produces no bytes; for every other request it succeeds.
C24_InvalidLenExactly ==
    txout.path = "xbpacket" =>
        /\ ~txout.ok <=> (txreq.payload = <<>> \/ 14 + Len(txreq.payload) >= 65536)
        /\ ~txout.ok => txout.bytes = <<>>
        /\ txout.ok => Len(txout.bytes) = 4 + 14 + Len(txreq.payload)

\* the largest request that fits was serialized: its length field is ff ff
C24_LargestFits ==
    /\ txout.path = "xbpacket"
    /\ txout.ok
    /\ Len(txreq.payload) = 65521
    /\ txout.bytes[2] = 255
    /\ txout.bytes[3] = 255

\* the smallest request that does not fit was refused
C24_Witness ==
    /\ txout.path = "xbpacket"
    /\ ~txout.ok
    /\ Len(txreq.payload) = 65522

-----------------------------------------------------------------------------
(* serialize, then parse *)

\* the request has a 64-bit destination
HasDest64 == txreq.dest_addr.kind = "U64"

\* the frame of the request has gone through rxxbpacket
Parsed == nradio = 1 /\ serin = <<>>

\* C25 as stated: for every payload P with 1 <= |P| <= 65530 and every 64-bit
\* destination D, serializing a TX Request for (D, P) succeeds and parsing the
\* produced bytes recovers payload P and destination D.
C25_RoundTrip ==
    (HasDest64 /\ Len(txreq.payload) \in 1..65530) =>
        /\ txout.path = "xbpacket" => txout.ok
        /\ Parsed =>
              /\ Len(rxlog) = 1
              /\ rxlog[1].payload = txreq.payload
              /\ rxlog[1].sender_addr64 = txreq.dest_addr.addr

\* C25, amended: for every payload P with 1 <= |P| <= 65521 and every 64-bit
\* destination D, serialize succeeds, and the frame it returns is 7e, the
\* length 14 + |P| in two big-endian bytes, 10, frame_id, D in its 8 bytes,
\* ff fe, broadcast_radius, transmit_options, P and the checksum, so that D and
\* P stand unchanged at fixed places of the frame; payloads of 65522 bytes or
\* more are refused. rxxbpacket does not decode the frame: type 0x10 is not a
\* Receive Packet, and the call returns None.
C25_SerializedLayout ==
    HasDest64 =>
        /\ (txout.path = "xbpacket" /\ Len(txreq.payload) \in 1..65521) =>
              /\ txout.ok
              /\ Len(txout.bytes) = 18 + Len(txreq.payload)
              /\ SubSeq(txout.bytes, 1, 5) =
                    <<126, (14 + Len(txreq.payload)) \div 256,
                      (14 + Len(txreq.payload)) % 256, 16, txreq.frame_id>>
              /\ SubSeq(txout.bytes, 6, 13) = txreq.dest_addr.addr
              /\ SubSeq(txout.bytes, 14, 17) =
                    <<255, 254, txreq.broadcast_radius, txreq.transmit_options>>
              /\ SubSeq(txout.bytes, 18, Len(txout.bytes) - 1) = txreq.payload
        /\ (txout.path = "xbpacket" /\ Len(txreq.payload) >= 65522) => ~txout.ok
        /\ Parsed =>
              /\ rxcall = Non0x90Frame
              /\ rxlog = <<>>
              /\ rfstatus = "running"

\* a request whose payload holds a start delimiter was serialized, and
\* rxxbpacket has read the whole frame and returned None
C25_Witness ==
    /\ HasDest64
    /\ txreq.dest_addr.addr = AddrA
    /\ txreq.payload = <<126, 1>>
    /\ txout.ok
    /\ Parsed
    /\ rxcall = Non0x90Frame

-----------------------------------------------------------------------------
(* packetize_data: the limit of 255 chunks *)

\* the number of chunks the datagram of the last call needs
ChunksNeeded == CeilDiv(Len(pkin.data), pkin.maxpacketsize - 1)

\* packetize_data was called with a max_packet_size that leaves room for data
PkCalled == pkcalls > 0 /\ pkin.maxpacketsize >= 2

\* the call refused the datagram: no packets, the frame counter left alone
PkRejected ==
    /\ pkout.status = "err"
    /\ pkout.packets = <<>>
    /\ pkout.framecounter = pkin.framecounter

PkAccepted == pkout.status = "ok" /\ Len(pkout.packets) = ChunksNeeded

C26_LimitOf255 ==
    PkCalled =>
        /\ ChunksNeeded >= 256 => PkRejected
        /\ ChunksNeeded \in 1..255 => PkAccepted

\* C26 as stated: packetize_data rejects with an InvalidLen error, returning
\* no packets, every payload that needs 256 or more chunks of
\* max_packet_size-1 bytes, and accepts every payload that needs between 1 and
\* 255 chunks.
C26_RejectsWithInvalidLen ==
    /\ C26_LimitOf255
    /\ (PkCalled /\ ChunksNeeded >= 256) => pkout.error = TXGenError_InvalidLen

\* C26, amended: packetize_data rejects with an error that is the message
\* "More than 255 chunks to transmit" (a String, not InvalidLen), returning no
\* packets and leaving the frame counter alone, every payload that needs 256
\* or more chunks of max_packet_size-1 bytes, and accepts every payload that
\* needs between 1 and 255 chunks.
C26_RejectsWithMessage ==
    /\ C26_LimitOf255
    /\ (PkCalled /\ ChunksNeeded >= 256) => pkout.error = MoreThan255Chunks
    /\ (PkCalled /\ ChunksNeeded \in 1..255) => pkout.error = NoError

\* a datagram of 256 chunks was refused after one of 255 chunks had been
\* accepted on the same stream
C26_Witness ==
    /\ pkcalls = 2
    /\ pkin.maxpacketsize = 2
    /\ Len(pkin.data) = 256
    /\ PkRejected
    /\ pkout.error = MoreThan255Chunks
    /\ pkin.framecounter # PacketStreamNew

-----------------------------------------------------------------------------
(* packetize_data: frame ids *)

\* the frame id that follows id in the cycle 1, 2, ..., 255, 1, ...
NextFrameId(id) == IF id = 255 THEN 1 ELSE id + 1

\* the step is a call of packetize_data that returned packets
PkCallStep == pkcalls' = pkcalls + 1 /\ pkout'.status = "ok"

\* with tx reports: the first id is the stream's counter, each id follows the
\* one before it in the cycle, and the counter is left at the id after the last
C27_WithReports ==
    (PkCallStep /\ pkin'.request_xbee_tx_reports /\ pkout'.packets # <<>>) =>
        /\ pkout'.packets[1].frame_id = framecounter
        /\ \A i \in 1..Len(pkout'.packets) : pkout'.packets[i].frame_id \in 1..255
        /\ \A i \in 1..(Len(pkout'.packets) - 1) :
              pkout'.packets[i + 1].frame_id = NextFrameId(pkout'.packets[i].frame_id)
        /\ framecounter' = NextFrameId(pkout'.packets[Len(pkout'.packets)].frame_id)

\* without tx reports: every id is 0 and the counter stays
C27_WithoutReports ==
    (PkCallStep /\ ~pkin'.request_xbee_tx_reports) =>
        /\ \A i \in 1..Len(pkout'.packets) : pkout'.packets[i].frame_id = 0
        /\ framecounter' = framecounter

\* a call that returns no packets leaves the counter alone
C27_NoPackets ==
    (pkcalls' = pkcalls + 1 /\ pkout'.packets = <<>>) => framecounter' = framecounter

\* C27: with request_tx_reports true, the frame_ids assigned to successive TX
\* Requests (across chunks and across successive datagrams of one
\* PacketStream) run 1,2,...,255,1,2,... and are never 0; with
\* request_tx_reports false every frame_id is 0 and the counter is not
\* advanced.
C27_FrameIds ==
    /\ [](pkcalls = 0 => framecounter = 1)
    /\ [](framecounter \in 1..255)
    /\ [][C27_WithReports /\ C27_WithoutReports /\ C27_NoPackets]_vars

\* the second datagram of the stream, 255 chunks with tx reports, got the ids
\* 2, ..., 255 and then 1
C27_Witness ==
    /\ pkcalls = 2
    /\ pkin.request_xbee_tx_reports
    /\ pkout.status = "ok"
    /\ Len(pkout.packets) = 255
    /\ pkout.packets[1].frame_id = 2
    /\ pkout.packets[254].frame_id = 255
    /\ pkout.packets[255].frame_id = 1
    /\ framecounter = 2

\* ---------------------------------------------------------------------------
\* C28

\* 7e 00 13 10 00 | 00 13 a2 00 40 12 34 56 | ff fe | 00 00 | 00 | "Ping 1"
ClaimedPingPrefix ==
    <<126, 0, 19, 16, 0, 0, 19, 162, 0, 64, 18, 52, 86, 255, 254, 0, 0, 0, 80, 105, 110, 103, 32, 49>>

\* the same bytes with the length of the 21 bytes that follow the length field
WrittenPingPrefix ==
    <<126, 0, 21, 16, 0, 0, 19, 162, 0, 64, 18, 52, 86, 255, 254, 0, 0, 0, 80, 105, 110, 103, 32, 49>>

\* the bytes from the frame type to the checksum add up to 0xFF modulo 256
RECURSIVE ByteSum(_)
ByteSum(s) == IF s = <<>> THEN 0 ELSE Head(s) + ByteSum(Tail(s))

CorrectChecksum(frame) ==
    /\ Len(frame) > 4
    /\ ByteSum(SubSeq(frame, 4, Len(frame))) % 256 = 255

\* the ping of the example has been written
FirstPingWritten ==
    /\ mode = "ping"
    /\ CmdDest = <<0, 19, 162, 0, 64, 18, 52, 86>>
    /\ opts.maxpacketsize = 256
    /\ ~opts.request_xbee_tx_reports
    /\ ~opts.disable_xbee_acks
    /\ wire # <<>>

\* C28 as stated: at max_packet_size 256, without tx reports and with acks on,
\* the first ping to 0x0013A20040123456 is written as a frame that begins
\* 7e 00 13 10 00 00 13 a2 00 40 12 34 56 ff fe 00 00 00 "Ping 1" and ends with
\* a correct checksum.
C28_FirstPingFrame ==
    FirstPingWritten =>
        /\ starts_with(wire[1], ClaimedPingPrefix)
        /\ CorrectChecksum(wire[1])

\* C28, amended: the frame is the one of the example except for its length
\* field, which holds 00 15, the 21 bytes between the length and the checksum;
\* one checksum byte, 0x82, follows "Ping 1" and makes the sum 0xFF.
C28_FirstPingFrameLength21 ==
    FirstPingWritten =>
        /\ wire[1] = WrittenPingPrefix \o <<130>>
        /\ CorrectChecksum(wire[1])

C28_Witness ==
    /\ FirstPingWritten
    /\ offered[1] = TXData(CmdDest, <<80, 105, 110, 103, 32, 49>>)
    /\ Len(wire[1]) = 25

\* ---------------------------------------------------------------------------
\* C29

\* the last n and the first n bytes of a big-endian value
LowBytes(m, n) == [i \in 1..n |-> m[Len(m) - n + i]]
TopBytes(m, n) == [i \in 1..n |-> m[i]]

\* C29: for every 64-bit radio address m, mac64to48(m) is the low 48 bits of m,
\* and mac48to64(mac64to48(m), p) equals m whenever the reference address p has
\* the same top 16 bits as m, in particular for p = m; for any p the result has
\* the top 16 bits of p over the low 48 bits of m.
C29_MacRoundTrip ==
    /\ macs.calls >= 1 =>
          /\ Len(macs.mac48) = 6
          /\ macs.mac48 = LowBytes(macs.mac64, 6)
    /\ macs.calls = 2 =>
          /\ Len(macs.back) = 8
          /\ LowBytes(macs.back, 6) = LowBytes(macs.mac64, 6)
          /\ TopBytes(macs.back, 2) = TopBytes(macs.pattern64, 2)
          /\ TopBytes(macs.pattern64, 2) = TopBytes(macs.mac64, 2) => macs.back = macs.mac64
          /\ macs.pattern64 = macs.mac64 => macs.back = macs.mac64

\* 0x123456789abcdeff gives 56:78:9a:bc:de:ff, and comes back under a reference
\* address that shares only its top 16 bits
C29_Witness ==
    /\ macs.calls = 2
    /\ macs.mac64 = <<18, 52, 86, 120, 154, 188, 222, 255>>
    /\ macs.mac48 = <<86, 120, 154, 188, 222, 255>>
    /\ macs.pattern64 = <<18, 52, 162, 0, 64, 18, 52, 86>>
    /\ macs.back = macs.mac64

\* ---------------------------------------------------------------------------
\* C30

\* a write to the host device has failed
HostWriteFailed == \E k \in 1..Len(hostout) : ~hostout[k].ok

\* the thread that reads the radio, the thread that reads the device and the
\* writer thread are alive
ThreadsAlive ==
    /\ rfstatus = "running"
    /\ prod.state \in {"running", "blocked"}
    /\ mainstate = "running"
    /\ wstate # "panicked"

\* C30 as stated: fatal conditions occur only during startup; once
\* initialization has succeeded, no wire decoding failure, encoding failure,
\* queue-full condition, unknown address or host-device write failure
\* terminates a reader, sender or writer thread.
C30_NoThreadEndsAfterStartup == mode \in {"tap", "tun"} => ThreadsAlive

\* what holds of the bridges: the TUN bridge logs a failed write and goes on,
\* and the TAP bridge loses its radio reader to a failed write and to nothing else
TunSurvivesHostWriteFailure == mode = "tun" => ThreadsAlive
TapEndsOnlyOnHostWriteFailure == mode = "tap" => (HostWriteFailed \/ ThreadsAlive)

\* the TUN bridge has delivered a datagram after a write that failed
TunGoesOnAfterFailure ==
    /\ mode = "tun"
    /\ Len(hostout) = 2
    /\ ~hostout[1].ok
    /\ hostout[2].ok

\* ---------------------------------------------------------------------------
\* C31

\* a step in which rxframe returns a datagram to pong
PongReturnStep == mode = "pong" /\ rxret'.valid /\ Len(rxlog') = Len(rxlog) + 1

\* the bytes of the datagram after its first five
PingRemainder == SubSeq(rxret'.data, 6, Len(rxret'.data))

IsPing(data) == Len(data) >= 5 /\ SubSeq(data, 1, 5) = <<80, 105, 110, 103, 32>>

\* the TX item for the sender of the datagram with "Pong " and these bytes
PongItem(bytes) ==
    [kind |-> "TXData", dest |-> [kind |-> "U64", addr |-> rxret'.addr64],
     data |-> <<80, 111, 110, 103, 32>> \o bytes]

\* each byte below 0x80 as it is, each other byte as EF BF BD
Replaced(bytes, k) == IF bytes[k] < 128 THEN <<bytes[k]>> ELSE <<239, 191, 189>>

\* the items handed to the channel so far are the items taken from the queue,
\* those in the queue and the one the blocked send holds, in this order
InOrderOfReceipt ==
    offered = deq \o txq \o (IF prod.state = "blocked" THEN <<prod.item>> ELSE <<>>)

\* a datagram that is no ping causes no item, and nothing else causes one
PongOnlyOnPing ==
    /\ (PongReturnStep /\ ~IsPing(rxret'.data)) => offered' = offered
    /\ (mode = "pong" /\ offered' # offered) => (PongReturnStep /\ IsPing(rxret'.data))

\* C31 as stated: in pong mode each received datagram that begins with "Ping "
\* causes exactly one TX item addressed to the datagram's 64-bit sender with
\* payload "Pong " followed by the bytes after the 5-byte prefix, replies are
\* enqueued in the order the pings were received, and a datagram not beginning
\* with "Ping " causes no TX item.
C31_PongStep ==
    /\ (PongReturnStep /\ IsPing(rxret'.data))
          => offered' = Append(offered, PongItem(PingRemainder))
    /\ PongOnlyOnPing

RECURSIVE ReplacedFrom(_, _)
ReplacedFrom(bytes, k) ==
    IF k > Len(bytes) THEN <<>> ELSE Replaced(bytes, k) \o ReplacedFrom(bytes, k + 1)

C31_LossyStep ==
    /\ (PongReturnStep /\ IsPing(rxret'.data))
          => /\ offered' = Append(offered, PongItem(ReplacedFrom(PingRemainder, 1)))
             /\ (\A k \in 1..Len(PingRemainder) : PingRemainder[k] < 128)
                   => offered' = Append(offered, PongItem(PingRemainder))
    /\ PongOnlyOnPing

IsBlock(item) == item.kind = "TXData"
BlocksTaken == SelectSeq(deq, IsBlock)

\* C32: in pipe mode every non-empty block read from standard input has at most
\* max_packet_size - 2 bytes, and is therefore transmitted as exactly one TX
\* Request whose chunk header is 0: the k-th frame on the wire carries the byte 0
\* and then the whole k-th block, and no block is split across two frames.
C32_PipeBlockIsOneFrame ==
    mode = "pipe" =>
        /\ \A k \in 1..Len(offered) :
              IsBlock(offered[k]) => Len(offered[k].data) \in 1..(opts.maxpacketsize - 2)
        /\ Len(wire) + Len(wpending) = Len(BlocksTaken)
        /\ Len(wpending) <= 1
        /\ \A k \in 1..Len(wire) :
              /\ Len(wire[k]) = 19 + Len(BlocksTaken[k].data)
              /\ wire[k][18] = 0
              /\ SubSeq(wire[k], 19, Len(wire[k]) - 1) = BlocksTaken[k].data
        /\ \A k \in 1..Len(wpending) :
              wpending[k].payload = <<0>> \o BlocksTaken[Len(BlocksTaken)].data

\* six bytes of input have been read as two blocks of max_packet_size - 2 bytes,
\* and both are on the wire
C32_Witness ==
    /\ mode = "pipe"
    /\ opts.maxpacketsize = 5
    /\ Len(wire) = 2
    /\ Len(BlocksTaken[1].data) = 3
    /\ Len(BlocksTaken[2].data) = 3
    /\ stdin = <<>>

\* ---------------------------------------------------------------------------
\* C33

\* the TAP bridge runs with --broadcast-everything
BroadcastEverythingTap == mode = "tap" /\ opts.broadcast_everything

\* a step in which rxframe returns a datagram to the bridge
BridgeReturnStep == rxret'.valid /\ Len(rxlog') = Len(rxlog) + 1

\* C33: in the TAP bridge with broadcast_everything true the address cache is
\* never modified after seeding, it holds only ff:ff:ff:ff:ff:ff -> 0xFFFF in
\* every reachable state, while every datagram received is still handed to the
\* TAP device's send, whether or not its Ethernet header parses.
C33_CacheStays ==
    BroadcastEverythingTap =>
        /\ DOMAIN tapdests = {<<255, 255, 255, 255, 255, 255>>}
        /\ tapdests[<<255, 255, 255, 255, 255, 255>>] = <<0, 0, 0, 0, 0, 0, 255, 255>>

C33_WriteStep ==
    BroadcastEverythingTap =>
        /\ tapdests' = tapdests
        /\ BridgeReturnStep =>
              /\ Len(hostout') = Len(hostout) + 1
              /\ SubSeq(hostout', 1, Len(hostout)) = hostout
              /\ hostout'[Len(hostout')].data = rxret'.data
        /\ ~BridgeReturnStep => hostout' = hostout

C33_BroadcastEverythingFreezesCache ==
    /\ []C33_CacheStays
    /\ [][C33_WriteStep]_vars

\* with broadcast_everything a frame with an Ethernet header from a station's
\* MAC and a runt without a header have both been written to the device, and the
\* cache is as seeded
C33_Witness ==
    /\ BroadcastEverythingTap
    /\ Len(hostout) = 2
    /\ hostout[1].ok /\ hostout[2].ok
    /\ \E k \in 1..2 :
          /\ from_ethernet(hostout[k].data).ok
          /\ from_ethernet(hostout[k].data).source = mac64to48(AddrA)
    /\ \E k \in 1..2 : ~from_ethernet(hostout[k].data).ok
    /\ DOMAIN tapdests = {ETHER_BROADCAST}

\* ---------------------------------------------------------------------------
\* C34

\* the cache of the bridge that runs
Dests == IF mode = "tap" THEN tapdests ELSE tundests

\* the mutex is held by a thread exactly while that thread is between its lock
\* and the end of its single insert or get: never in rxframe (serial read), in
\* the device's recv or send, in try_send, or while waiting for the mutex
HeldOnlyAcrossOneAccess ==
    /\ sync.holder \in {"free", "reader", "sender"}
    /\ sync.holder = "reader" <=> sync.reader = "insert"
    /\ sync.holder = "sender" <=> sync.sender = "get"

\* whenever a thread waits for the mutex, the mutex is free or its holder can
\* take the step that releases it
NoLockDeadlock ==
    (sync.reader = "lock" \/ sync.sender = "lock") =>
        \/ sync.holder = "free" /\ (ENABLED XbProc_lock \/ ENABLED DevProc_lock)
        \/ sync.holder = "reader" /\ ENABLED XbProc_insert
        \/ sync.holder = "sender" /\ ENABLED DevProc_get

\* the cache changes only in a step of the reader that holds the mutex and
\* releases it, by one whole insert
InsertUnderLock ==
    (tapdests' # tapdests \/ tundests' # tundests) =>
        /\ sync.holder = "reader"
        /\ sync'.holder = "free"
        /\ \E m \in DOMAIN Dests' :
              /\ \A other \in DOMAIN Dests : other # m => Dests'[other] = Dests[other]
              /\ DOMAIN Dests' = DOMAIN Dests \cup {m}

\* a lookup is one step of the sender that holds the mutex: it returns what the
\* cache holds for the destination in that state, the mapping before an insert
\* or the one after it
LookupUnderLock ==
    (sync'.got # sync.got /\ ~opts.broadcast_everything) =>
        /\ sync.holder = "sender"
        /\ sync'.holder = "free"
        /\ Dests' = Dests
        /\ LET key == Header(hostframe).destination
           IN IF key \in DOMAIN Dests
              THEN sync'.got.mac \in {XB_BROADCAST,
                                     IF mode = "tap" THEN tapdests[key] ELSE tundests[key].dest}
              ELSE sync'.got.mac = XB_BROADCAST \/ ~sync'.got.some

\* C34: the reader and sender threads of a bridge share one cache, each cache
\* access holds the mutex for a single get or insert only, and no thread holds
\* the lock while blocked on a device read, a serial read or a channel
\* operation; hence concurrent learning and lookup cannot deadlock, and a
\* lookup sees either the mapping before an insert or the one after it.
C34_CacheLockDiscipline ==
    /\ [](mode \in {"tap", "tun"} => (HeldOnlyAcrossOneAccess /\ NoLockDeadlock))
    /\ [][InsertUnderLock /\ LookupUnderLock]_vars

\* the sender thread holds the mutex for its lookup while the reader thread
\* waits for it with a source to insert
C34_Witness ==
    /\ mode = "tap"
    /\ sync.holder = "sender"
    /\ sync.sender = "get"
    /\ sync.reader = "lock"
    /\ Header(hostframe).destination = Header(rxret.data).source

\* ---------------------------------------------------------------------------
\* C35

\* a step in which rxframe processes a Receive Packet
PacketStep == Len(rxlog') = Len(rxlog) + 1

\* that packet, and what the map held for its sender
ThePacket == rxlog'[Len(rxlog')]
HeldFor(s) == IF s \in DOMAIN buf THEN buf[s] ELSE <<>>

\* all that rxframe asks of a chunk header is whether it is zero: a packet with
\* any other header extends its sender's buffer by payload[1..] and returns
\* nothing, a packet with header 0 returns the buffer extended by payload[1..]
C35_HeaderStep ==
    PacketStep =>
        LET s == ThePacket.sender_addr64
            frame == HeldFor(s) \o Tail(ThePacket.payload)
        IN IF ThePacket.payload[1] = 0
           THEN /\ rxret'.valid
                /\ rxret'.addr64 = s
                /\ rxret'.data = frame
                /\ s \notin DOMAIN buf'
           ELSE /\ ~rxret'.valid
                /\ s \in DOMAIN buf'
                /\ buf'[s] = frame

\* what is buffered for a sender is payload[1..] of all its packets since its
\* previous terminal packet
C35_BufferIsConcatenation ==
    \A s \in DOMAIN buf : buf[s] = SinceTerminal(rxlog, s, Len(rxlog))

\* C35: the reframer never inspects the value of a non-zero chunk header: the
\* datagram returned for sender S is the concatenation of payload[1..] of every
\* packet from S received since S's previous terminal packet (or since start),
\* whatever counter values those packets carried and however many there were.
C35_NonZeroHeaderValueIgnored ==
    /\ [](C35_BufferIsConcatenation)
    /\ [](rxret.valid => rxret.data = SinceTerminal(rxlog, rxret.addr64, Len(rxlog)))
    /\ [][C35_HeaderStep]_vars

\* one sender's packets with the headers 1, 2 and 0, which no countdown
\* produces, came back as one datagram of their three data bytes
C35_Witness ==
    /\ rxret.valid
    /\ Len(rxlog) = 3
    /\ \A i \in 1..3 : rxlog[i].sender_addr64 = rxret.addr64 /\ Len(rxlog[i].payload) = 2
    /\ rxlog[1].payload[1] = 1
    /\ rxlog[2].payload[1] = 2
    /\ rxlog[3].payload[1] = 0
    /\ rxret.data = <<rxlog[1].payload[2], rxlog[2].payload[2], rxlog[3].payload[2]>>

\* ---------------------------------------------------------------------------
\* C36

\* the payloads of the Receive Packets rxframe has processed from sender s
RECURSIVE ReceivedFrom(_, _)
ReceivedFrom(s, n) ==
    IF n = 0 THEN <<>>
    ELSE IF rxlog[n].sender_addr64 = s
         THEN Append(ReceivedFrom(s, n - 1), rxlog[n].payload)
         ELSE ReceivedFrom(s, n - 1)
Received(s) == ReceivedFrom(s, Len(rxlog))

\* the chunk of s that is on the serial line, not yet read
InFlight(s) ==
    IF rxxbpacket(serin).status = "some" /\ rxxbpacket(serin).packet.sender_addr64 = s
    THEN <<rxxbpacket(serin).packet.payload>>
    ELSE <<>>

\* every chunk of s so far: processed, on the serial line, on the air
Stream(s) == Received(s) \o InFlight(s) \o air[s]

\* the chunks the datagrams ds make, one datagram after the other
RECURSIVE ChunksOf(_)
ChunksOf(ds) == IF ds = <<>> THEN <<>> ELSE RemoteChunks(Head(ds)) \o ChunksOf(Tail(ds))

\* the datagrams of ds that rxframe has the last chunk of
Completed(s, ds) ==
    {k \in 1..Len(ds) : ds[k] # <<>> /\ Received(s) = ChunksOf(SubSeq(ds, 1, k))}

\* the last packet rxframe processed came from s
LastFrom(s) == rxlog # <<>> /\ rxlog[Len(rxlog)].sender_addr64 = s

\* C36: if all chunks produced by packetize_data for a payload P are delivered
\* as Receive Packets from one sender in order and without loss, and that
\* sender had no buffer beforehand, rxframe returns exactly P once, on the last
\* chunk, whatever packets from other senders are interleaved.
C36_LosslessRoundTrip ==
    \A s \in Senders :
        \E ds \in SeqsUpTo(handed[s], nsent) :
            /\ Stream(s) = ChunksOf(ds)
            /\ LastFrom(s) =>
                   IF Completed(s, ds) # {}
                   THEN /\ rxret.valid
                        /\ rxret.addr64 = s
                        /\ \A k \in Completed(s, ds) : rxret.data = ds[k]
                        /\ s \notin DOMAIN buf
                   ELSE /\ ~rxret.valid
                        /\ s \in DOMAIN buf

\* the two chunks of [7, 9] from one sender came back as [7, 9] although a
\* chunk of the other sender's unfinished datagram arrived between them
C36_Witness ==
    /\ Len(rxlog) >= 3
    /\ rxret.valid
    /\ rxret.addr64 = AddrA
    /\ rxret.data = <<7, 9>>
    /\ <<7, 9>> \in handed[AddrA]
    /\ rxlog[Len(rxlog) - 1].sender_addr64 = AddrB
    /\ rxlog[Len(rxlog) - 2].sender_addr64 = AddrA
    /\ AddrB \in DOMAIN buf

\* ---------------------------------------------------------------------------
\* C37

\* a step in which the reader takes a whole frame off the serial line
FrameStep == rxxbpacket(serin).status # "block" /\ serin' = rxxbpacket(serin).rest

\* the frame on the serial line is a Receive Packet without a chunk header
HeaderlessPacket ==
    rxxbpacket(serin).status = "some" /\ rxxbpacket(serin).packet.payload = <<>>

\* C37: every checksum-valid inbound frame, whatever its declared length
\* (including 0) and frame type, is either returned as a Receive Packet or
\* discarded with the reader resuming; in particular a 0x90 frame with a
\* zero-length payload (no chunk-header byte) does not abort the reframer and
\* leaves every sender's buffer unchanged.
C37_ValidFrameNeverAborts ==
    [][FrameStep =>
          /\ rfstatus' = "running"
          /\ PacketStep \/ (buf' = buf /\ ~rxret'.valid)
          /\ HeaderlessPacket => buf' = buf]_vars

\* a Receive Packet with a chunk-header byte never aborts the reframer
PacketWithHeaderHandled ==
    [][(FrameStep /\ ~HeaderlessPacket) => (rfstatus' = "running" /\ PacketStep)]_vars

\* ---------------------------------------------------------------------------
\* C38

\* a step in which frames_from_tun_processor reads the tun device
TunLookupStep == mode = "tun" /\ hostin' = hostin + 1

\* a step in which frames_from_xb_processor learns where a datagram came from
TunLearnStep ==
    /\ mode = "tun"
    /\ ~opts.broadcast_everything
    /\ rxlog' # rxlog
    /\ rxret'.valid
    /\ from_ip(rxret'.data).ok
    /\ tundests' = MapInsert(tundests, from_ip(rxret'.data).source,
                             [dest |-> rxret'.addr64,
                              expiration |-> now + opts.max_ip_cache])

\* ip has an entry that has expired
Expired(ip) == ip \in DOMAIN tundests /\ now >= tundests[ip].expiration

C38_CacheStep ==
    /\ TunLookupStep => tundests' = tundests
    /\ (TunLookupStep /\ from_ip(hostframe').ok /\ FamilyEnabled(TunDestination)
          /\ ~opts.broadcast_everything /\ Expired(TunDestination))
           => Enqueues(TunItem(XB_BROADCAST))
    /\ tundests' # tundests => TunLearnStep
    /\ \A ip \in DOMAIN tundests :
          /\ ip \in DOMAIN tundests'
          /\ tundests'[ip] # tundests[ip] =>
                (/\ TunLearnStep
                 /\ from_ip(rxret'.data).source = ip
                 /\ tundests'[ip].expiration = now + opts.max_ip_cache)

\* C38: a TUN destination lookup never modifies the IP cache: an expired entry
\* is not removed by lookups and stays in the map (routing to 0xFFFF) until a
\* later receive from that IP overwrites it with a fresh expiry; entries are
\* changed only by the radio-receive path.
C38_TunLookupLeavesCache == [][mode = "tun" => C38_CacheStep]_vars

\* the peer was heard from AddrA at time 0 and the datagram read then went to
\* AddrA; when the entry had expired the next datagram for the peer went to the
\* broadcast address, and the entry stayed until the receive at time 1 put a
\* fresh expiration into it
C38_Witness ==
    /\ mode = "tun"
    /\ ~opts.broadcast_everything
    /\ Len(hostout) = 2
    /\ hostout[1].from = AddrA /\ hostout[1].at = 0
    /\ hostout[2].from = AddrA /\ hostout[2].at = opts.max_ip_cache
    /\ HeardFromIp(IpV4(Ip4Peer)) = {1, 2}
    /\ offered = <<TXData(AddrA, Ipv4Packet(Ip4Local, Ip4Peer, <<>>)),
                   TXData(XB_BROADCAST, Ipv4Packet(Ip4Local, Ip4Peer, <<>>))>>
    /\ DOMAIN tundests = {IpV4(Ip4Peer)}
    /\ tundests[IpV4(Ip4Peer)] = [dest |-> AddrA, expiration |-> 2 * opts.max_ip_cache]

=============================================================================
